---------------------------- MODULE Spec2Model ----------------------------
(***************************************************************************)
(* A model of pytypopo, the typography fixer (src/src/pytypopo).           *)
(*                                                                         *)
(* A text is a sequence of characters; a character is a one-element TLA+   *)
(* string, or a bracketed name for a character outside ASCII (NBSP,        *)
(* ELLIPSIS, ...).  Every regular expression of the source is modelled by  *)
(* an operator that scans the text the way re.sub / re.finditer does:      *)
(* leftmost match first, the match the backtracking engine would pick,     *)
(* then on from the end of the match.  Character classes are the classes   *)
(* of const.py restricted to the characters of the model (Chars).          *)
(***************************************************************************)
EXTENDS Integers, Sequences, FiniteSets, TLC

-----------------------------------------------------------------------------
(* Characters: src/src/pytypopo/const.py                                   *)

NBSP == "<nbsp>"
HAIR_SPACE == "<hair>"
NARROW_NBSP == "<nnbsp>"
SPACE == " "
ELLIPSIS == "<ellipsis>"
HYPHEN == "-"
EN_DASH == "<endash>"
EM_DASH == "<emdash>"
BACKTICK == "<backtick>"
NUL == "<nul>"
MODIFIER_APOSTROPHE == "<modapos>"
MICRO_SIGN == "<micro>"
SUPERSCRIPT_TWO == "<sup2>"
SUPERSCRIPT_THREE == "<sup3>"

\* Letters beyond "a-z" and "A-Z": letters of the Czech, Slovak, German and
\* Rusyn alphabets, as the abbreviation tables and the texts of the tests
\* hold them.
C_CARON == "<ccaron>"
R_CARON == "<rcaron>"
A_UMLAUT == "<auml>"
CAPITAL_A_UMLAUT == "<Auml>"
CYRILLIC_CHE == "<cyr-che>"
CYRILLIC_ES == "<cyr-es>"
CYRILLIC_TE == "<cyr-te>"
CYRILLIC_ER == "<cyr-er>"
CYRILLIC_ZE == "<cyr-ze>"
CYRILLIC_EN == "<cyr-en>"
NonLatinLetters == {C_CARON, R_CARON, A_UMLAUT, CAPITAL_A_UMLAUT, CYRILLIC_CHE,
                    CYRILLIC_ES, CYRILLIC_TE, CYRILLIC_ER, CYRILLIC_ZE, CYRILLIC_EN}

\* "a-z" and "A-Z".  NON_LATIN_LOWERCASE and NON_LATIN_UPPERCASE, which
\* const.py l.9-10 adds to both classes, hold none of the letters above: the
\* two literals are the characters U+8C29, U+76F2, U+81B7, ... (the UTF-8
\* bytes of the accented and Cyrillic letters read in another encoding),
\* characters that no text of the model holds.
LOWERCASE_CHARS ==
    {"a", "b", "c", "d", "e", "f", "g", "h", "i", "j", "k", "l", "m",
     "n", "o", "p", "q", "r", "s", "t", "u", "v", "w", "x", "y", "z"}
UPPERCASE_CHARS ==
    {"A", "B", "C", "D", "E", "F", "G", "H", "I", "J", "K", "L", "M",
     "N", "O", "P", "Q", "R", "S", "T", "U", "V", "W", "X", "Y", "Z"}
ALL_CHARS == LOWERCASE_CHARS \cup UPPERCASE_CHARS
Digits == {"0", "1", "2", "3", "4", "5", "6", "7", "8", "9"}
SPACES == {SPACE, NBSP, HAIR_SPACE, NARROW_NBSP}
TERMINAL_PUNCTUATION == {".", "!", "?"}
SENTENCE_PAUSE_PUNCTUATION == {",", ":", ";"}
SENTENCE_PUNCTUATION == SENTENCE_PAUSE_PUNCTUATION \cup TERMINAL_PUNCTUATION
OPENING_BRACKETS == {"(", "[", "{"}
CLOSING_BRACKETS == {")", "]", "}"}
Dashes == {HYPHEN, EN_DASH, EM_DASH}

\* \w of a str pattern: letters, digits and the underscore.  The modifier
\* letter apostrophe and the micro sign are letters of Unicode, the
\* superscript digits are numeric.
WordChars == ALL_CHARS \cup Digits \cup NonLatinLetters
             \cup {"_", MODIFIER_APOSTROPHE, MICRO_SIGN, SUPERSCRIPT_TWO,
                   SUPERSCRIPT_THREE}
\* The tab character.
TAB == "<tab>"

\* \s of a str pattern, and what str.strip removes: the four spaces are
\* Unicode whitespace, and so are the tab, the newline and the carriage
\* return.
Whitespace == SPACES \cup {TAB, "<nl>", "<cr>"}

-----------------------------------------------------------------------------
(* Text helpers: the str and re primitives of Python                       *)

\* t[i] when i is inside the text, "" (no character) outside.
At(t, i) == IF i >= 1 /\ i <= Len(t) THEN t[i] ELSE ""

\* p occurs in t at position i.
IsAt(t, i, p) ==
    /\ i >= 1
    /\ i + Len(p) - 1 <= Len(t)
    /\ \A k \in 1..Len(p) : t[i + k - 1] = p[k]

\* The least element of a non-empty set of integers.
Min(S) == CHOOSE i \in S : \A j \in S : i <= j

\* The greatest element of a non-empty set of integers.
Max(S) == CHOOSE i \in S : \A j \in S : i >= j

\* The sequence s with each of its elements worked out once.
Stored(s) == s \o <<>>

\* str.find: the least position >= from where p occurs, 0 when none.
Find(t, p, from) ==
    LET hits == {i \in from..(Len(t) - Len(p) + 1) : IsAt(t, i, p)}
    IN  IF hits = {} THEN 0 ELSE Min(hits)

\* p in t
Contains(t, p) == Find(t, p, 1) # 0

HasChar(t, S) == \E i \in 1..Len(t) : t[i] \in S

\* str.replace(old, new, 1): the first occurrence only.
ReplaceFirst(t, old, new) ==
    LET i == Find(t, old, 1)
    IN  IF i = 0 THEN t
        ELSE SubSeq(t, 1, i - 1) \o new \o SubSeq(t, i + Len(old), Len(t))

\* str.replace(old, new) and re.sub(re.escape(old), new, t): every
\* occurrence, left to right, occurrences do not overlap, the inserted
\* text is not scanned again.
ReplaceAll(t, old, new) ==
    LET f[i \in 1..(Len(t) + 1)] ==
            LET hit == Find(t, old, i)
            IN  IF hit = 0 THEN SubSeq(t, i, Len(t))
                ELSE SubSeq(t, i, hit - 1) \o new \o f[hit + Len(old)]
    IN  f[1]

\* The end of the longest run of characters of S that starts at i
\* (i - 1 when t[i] is not in S): a greedy [S]*.
RunEnd(t, i, S) ==
    LET stops == {j \in i..Len(t) : t[j] \notin S}
    IN  IF i < 1 \/ i > Len(t) THEN i - 1
        ELSE IF stops = {} THEN Len(t) ELSE Min(stops) - 1

\* \b between t[i-1] and t[i].
WordBoundaryBefore(t, i) == (At(t, i - 1) \in WordChars) # (At(t, i) \in WordChars)

\* pattern.sub over a pattern that never matches the empty string:
\* MatchEnd(t, i) is the last position of the match that starts at i
\* (i - 1 or less when there is none), Repl(t, i, e) the text put in its
\* place.
Sub(t, MatchEnd(_, _), Repl(_, _, _)) ==
    LET f[i \in 1..(Len(t) + 1)] ==
            LET starts == {j \in i..Len(t) : MatchEnd(t, j) >= j}
            IN  IF starts = {} THEN SubSeq(t, i, Len(t))
                ELSE LET j == Min(starts)
                         e == MatchEnd(t, j)
                     IN  SubSeq(t, i, j - 1) \o Repl(t, j, e) \o f[e + 1]
    IN  f[1]

\* str(i) for an index i >= 0.
RECURSIVE DecimalString(_)
DecimalString(n) ==
    LET digit == <<"0", "1", "2", "3", "4", "5", "6", "7", "8", "9">>
    IN  IF n < 10 THEN <<digit[n + 1]>>
        ELSE DecimalString(n \div 10) \o <<digit[(n % 10) + 1]>>

-----------------------------------------------------------------------------
(* Exceptions: src/src/pytypopo/modules/words/exceptions.py                *)

\* Characters of the patterns.  re.IGNORECASE makes both letter cases equal.
AlphaNum == ALL_CHARS \cup Digits
\* [a-zA-Z0-9\+\.\_%\-] : the local part of an email address
EmailLocalChars == AlphaNum \cup {"+", ".", "_", "%", "-"}
\* [a-zA-Z0-9\-] : the tail of a domain label
LabelChars == AlphaNum \cup {"-"}
\* the characters of a URL path
UrlPathChars == AlphaNum \cup {";", "<backslash>", "/", "?", ":", "@", "&", "=",
                               "#", "~", "-", ".", "+", "!", "*", "<sq>", "(", ")",
                               ",", "_"}
\* [a-zA-Z0-9_%\-] : the stem of a file name
FileStemChars == AlphaNum \cup {"_", "%", "-"}

\* _TLD_LIST, the alternatives that the letters c, e, i, n, o, p, t, x, y
\* spell: the letters of the texts that exclude_exceptions is given here.
TLD_LIST ==
    { <<"c","c">>, <<"c","i">>, <<"c","n">>, <<"c","o">>, <<"c","x">>,
      <<"c","y">>, <<"c","o","o","p">>, <<"e","c">>, <<"e","e">>,
      <<"e","t">>, <<"i","e">>, <<"i","n">>, <<"i","o">>, <<"i","t">>,
      <<"i","n","t">>, <<"n","c">>, <<"n","e">>, <<"n","i">>, <<"n","o">>,
      <<"n","p">>, <<"n","e","t">>, <<"o","n","e">>, <<"p","e">>,
      <<"p","n">>, <<"p","t">>, <<"p","y">>, <<"t","c">>, <<"t","n">>,
      <<"t","o">>, <<"t","p">>, <<"t","t">>, <<"y","e">>, <<"y","t">> }

\* _FILE_EXTENSIONS, the alternatives that the same letters spell.
FILE_EXTENSIONS ==
    { <<"c">>, <<"c","p","p">>, <<"e","x","e">>, <<"p","p","t">>,
      <<"p","p","t","x">>, <<"p","y">>, <<"t","e","x">>, <<"t","x","t">> }

\* EMAIL_PATTERN at position i: the last position of the match, 0 when none.
\* Local part, "@", first label and the dotted labels are each greedy, and
\* each is followed by a character that ends the run, so the engine has no
\* shorter choice to backtrack to.  The {1,256}, {0,64} and {0,25} limits
\* exceed the length of every text of the model.
EmailMatchEnd(t, i) ==
    LET localEnd == RunEnd(t, i, EmailLocalChars)
        labelEnd == IF /\ localEnd >= i
                       /\ At(t, localEnd + 1) = "@"
                       /\ At(t, localEnd + 2) \in AlphaNum
                    THEN RunEnd(t, localEnd + 2, LabelChars) ELSE 0
        more[j \in 0..(Len(t) + 1)] ==
            IF At(t, j + 1) = "." /\ At(t, j + 2) \in AlphaNum
            THEN more[RunEnd(t, j + 2, LabelChars)] ELSE j
    IN  IF labelEnd = 0 THEN 0
        ELSE IF more[labelEnd] > labelEnd THEN more[labelEnd] ELSE 0

\* The domain alternative of URL_PATTERN at position i: one or more labels
\* "[a-zA-Z0-9][a-zA-Z0-9\-]{0,64}\." followed by a top-level domain.  The
\* labels are taken greedily and given back one at a time until what follows
\* is a top-level domain that ends at a word boundary (a path or the final
\* (?:\b|$) must follow it).  Result: the last position of the top-level
\* domain, 0 when there is none.
UrlDomainEnd(t, i) ==
    LET labelDot(j) ==
            IF At(t, j) \in AlphaNum
            THEN LET e == RunEnd(t, j, LabelChars)
                 IN  IF At(t, e + 1) = "." THEN e + 1 ELSE 0
            ELSE 0
        tldEnd(j) ==
            LET e == RunEnd(t, j, WordChars)
            IN  IF e >= j /\ SubSeq(t, j, e) \in TLD_LIST THEN e ELSE 0
        \* labels from j on, the greedy choice first
        chain[j \in 1..(Len(t) + 1)] ==
            LET d == labelDot(j)
            IN  IF d = 0 THEN 0
                ELSE LET deeper == chain[d + 1]
                     IN  IF deeper # 0 THEN deeper ELSE tldEnd(d + 1)
    IN  IF i > Len(t) THEN 0 ELSE chain[i]

\* URL_PATTERN at position i: the last position of the match, 0 when none.
\* No text of the model holds ":" or a digit next to a period, so the
\* protocol, the port and the IPv4 alternative never match.  The optional
\* path "/..." is greedy and gives characters back until (?:\b|$) holds.
UrlMatchEnd(t, i) ==
    LET d == UrlDomainEnd(t, i)
        pathEnd == RunEnd(t, d + 2, UrlPathChars)
        ok(e) == e = Len(t) \/ WordBoundaryBefore(t, e + 1)
        ends == {e \in (d + 1)..pathEnd : ok(e)}
    IN  IF d = 0 THEN 0
        ELSE IF At(t, d + 1) = "/" /\ ends # {}
             THEN CHOOSE e \in ends : \A x \in ends : x <= e
        ELSE d

\* FILENAME_PATTERN at position i: the last position of the match, 0 when
\* none.  \b, a greedy stem, a period and an extension that ends at \b: the
\* extension is the whole run of word characters after the period.
FilenameMatchEnd(t, i) ==
    LET stemEnd == RunEnd(t, i, FileStemChars)
        extEnd == RunEnd(t, stemEnd + 2, WordChars)
    IN  IF /\ WordBoundaryBefore(t, i)
           /\ stemEnd >= i
           /\ At(t, stemEnd + 1) = "."
           /\ extEnd >= stemEnd + 2
           /\ SubSeq(t, stemEnd + 2, extEnd) \in FILE_EXTENSIONS
        THEN extEnd ELSE 0

\* pattern.finditer(text): the matches left to right as (start, end, group)
\* with the offsets of Python (start from 0, end exclusive).
FindIter(t, MatchEnd(_, _)) ==
    LET f[i \in 1..(Len(t) + 1)] ==
            LET starts == {j \in i..Len(t) : MatchEnd(t, j) >= j}
            IN  IF starts = {} THEN <<>>
                ELSE LET j == Min(starts)
                         e == MatchEnd(t, j)
                     IN  <<[start |-> j - 1, end |-> e, str |-> SubSeq(t, j, e)]>>
                         \o f[e + 1]
    IN  f[1]

\* all_matches.sort(key=lambda x: (x[0], -(x[1] - x[0]))): a stable sort by
\* start offset, the longer match first among equal starts.
SortsBefore(a, b) ==
    \/ a.start < b.start
    \/ a.start = b.start /\ (a.end - a.start) > (b.end - b.start)

RECURSIVE SortMatches(_)
SortMatches(ms) ==
    IF Len(ms) <= 1 THEN ms
    ELSE LET rest == SortMatches(Tail(ms))
             x == Head(ms)
             \* x goes before the first element that does not sort before it
             k == Cardinality({j \in 1..Len(rest) : SortsBefore(rest[j], x)})
         IN  SubSeq(rest, 1, k) \o <<x>> \o SubSeq(rest, k + 1, Len(rest))

\* start < covered_end and end > covered_start
Overlaps(a, b) == a.start < b.end /\ a.end > b.start

\* A loop over all_matches that keeps every match.
keep_all_matches(ms, covered) == covered \o ms

\* The loop over all_matches of exclude_exceptions: a match is kept when it
\* overlaps no range already covered.
RECURSIVE FilterOverlapping(_, _)
FilterOverlapping(ms, covered) ==
    IF ms = <<>> THEN covered
    ELSE IF \E k \in 1..Len(covered) : Overlaps(Head(ms), covered[k])
         THEN FilterOverlapping(Tail(ms), covered)
         ELSE FilterOverlapping(Tail(ms), Append(covered, Head(ms)))

\* The candidates of the three categories, emails first, then URLs, then
\* file names.
AllMatches(t) ==
    FindIter(t, EmailMatchEnd) \o FindIter(t, UrlMatchEnd)
        \o FindIter(t, FilenameMatchEnd)

\* The spans exclude_exceptions accepts, in the order it accepts them.
AcceptedSpans(t) == FilterOverlapping(SortMatches(AllMatches(t)), <<>>)

\* A placeholder with spaces around its hyphen.
spaced_placeholder(i) ==
    <<"{", "{", "t", "y", "p", "o", "p", "o", "_", "_", "e", "x", "c", "e",
      "p", "t", "i", "o", "n", SPACE, "-", SPACE>> \o DecimalString(i) \o <<"}", "}">>

\* f"{{{{typopo__exception-{i}}}}}"
Placeholder(i) ==
    <<"{", "{", "t", "y", "p", "o", "p", "o", "_", "_", "e", "x", "c", "e",
      "p", "t", "i", "o", "n", "-">> \o DecimalString(i) \o <<"}", "}">>

\* _replace_with_placeholders: for the i-th exception, the first occurrence
\* of its text in the result so far becomes the i-th placeholder.
RECURSIVE ReplaceWithPlaceholdersFrom(_, _, _)
ReplaceWithPlaceholdersFrom(result, exceptions, i) ==
    IF i > Len(exceptions) THEN result
    ELSE ReplaceWithPlaceholdersFrom(
             ReplaceFirst(result, exceptions[i], Placeholder(i - 1)),
             exceptions, i + 1)

replace_with_placeholders(text, exceptions) ==
    ReplaceWithPlaceholdersFrom(text, exceptions, 1)

\* An extraction that takes nothing out of the text.
exclude_nothing(text) == [processed_text |-> text, exceptions |-> <<>>]

exclude_exceptions(text) ==
    LET spans == AcceptedSpans(text)
        exceptions == [k \in 1..Len(spans) |-> spans[k].str]
    IN  [processed_text |-> replace_with_placeholders(text, exceptions),
         exceptions |-> exceptions]

\* place_exceptions: for i = 0, 1, ... every occurrence of the i-th
\* placeholder in the result so far becomes the i-th exception.  (The
\* doubling of "\" protects the replacement template of re.sub; no text of
\* the model holds a backslash.)
RECURSIVE PlaceExceptionsFrom(_, _, _)
PlaceExceptionsFrom(result, exceptions, i) ==
    IF i > Len(exceptions) THEN result
    ELSE PlaceExceptionsFrom(
             ReplaceAll(result, Placeholder(i - 1), exceptions[i]),
             exceptions, i + 1)

place_exceptions(text, exceptions) == PlaceExceptionsFrom(text, exceptions, 1)

-----------------------------------------------------------------------------
(* Locales: src/src/pytypopo/locale/base.py                                *)

\* A locale id is a sequence of characters, or None.
None == <<"<None>">>
EN_US == <<"e", "n", "-", "u", "s">>
DE_DE == <<"d", "e", "-", "d", "e">>
CS == <<"c", "s">>
SK == <<"s", "k">>
RUE == <<"r", "u", "e">>

DEFAULT_LOCALE == EN_US

\* Quote characters.
LEFT_DOUBLE_QUOTE == "<ldquo>"
RIGHT_DOUBLE_QUOTE == "<rdquo>"
LEFT_SINGLE_QUOTE == "<lsquo>"
RIGHT_SINGLE_QUOTE == "<rsquo>"
DOUBLE_LOW_9_QUOTE == "<bdquo>"
SINGLE_LOW_9_QUOTE == "<sbquo>"
LEFT_GUILLEMET == "<laquo>"
RIGHT_GUILLEMET == "<raquo>"
LEFT_SINGLE_GUILLEMET == "<lsaquo>"
RIGHT_SINGLE_GUILLEMET == "<rsaquo>"

\* The fields of LOCALE_CONFIGS that the modelled stages read.  The ordinal
\* indicator is the sequence of the alternatives of its regular expression.
LOCALE_CONFIGS ==
    [id \in {EN_US, DE_DE, CS, SK, RUE} |->
        CASE id = EN_US ->
               [double_quote_open |-> LEFT_DOUBLE_QUOTE,
                double_quote_close |-> RIGHT_DOUBLE_QUOTE,
                single_quote_open |-> LEFT_SINGLE_QUOTE,
                single_quote_close |-> RIGHT_SINGLE_QUOTE,
                ordinal_indicator |-> <<<<"s","t">>, <<"n","d">>, <<"r","d">>, <<"t","h">>>>,
                roman_ordinal_indicator |-> <<>>,
                ordinal_date_first_space |-> <<NBSP>>,
                ordinal_date_second_space |-> <<NBSP>>,
                space_before_percent |-> <<>>,
                dash_space_before |-> <<>>,
                dash_char |-> <<EM_DASH>>,
                dash_space_after |-> <<>>,
                space_after_abbreviation |-> <<>>,
                space_after_copyright |-> <<NBSP>>,
                space_after_sound_recording_copyright |-> <<NBSP>>,
                space_after_numero_sign |-> <<NBSP>>,
                space_after_section_sign |-> <<NBSP>>,
                space_after_paragraph_sign |-> <<NBSP>>]
          [] id = DE_DE ->
               [double_quote_open |-> DOUBLE_LOW_9_QUOTE,
                double_quote_close |-> LEFT_DOUBLE_QUOTE,
                single_quote_open |-> SINGLE_LOW_9_QUOTE,
                single_quote_close |-> LEFT_SINGLE_QUOTE,
                ordinal_indicator |-> <<<<".">>>>,
                roman_ordinal_indicator |-> <<".">>,
                ordinal_date_first_space |-> <<NBSP>>,
                ordinal_date_second_space |-> <<SPACE>>,
                space_before_percent |-> <<NARROW_NBSP>>,
                dash_space_before |-> <<HAIR_SPACE>>,
                dash_char |-> <<EN_DASH>>,
                dash_space_after |-> <<HAIR_SPACE>>,
                space_after_abbreviation |-> <<NBSP>>,
                space_after_copyright |-> <<NBSP>>,
                space_after_sound_recording_copyright |-> <<NBSP>>,
                space_after_numero_sign |-> <<NBSP>>,
                space_after_section_sign |-> <<NBSP>>,
                space_after_paragraph_sign |-> <<NBSP>>]
          [] id = CS ->
               [double_quote_open |-> DOUBLE_LOW_9_QUOTE,
                double_quote_close |-> LEFT_DOUBLE_QUOTE,
                single_quote_open |-> SINGLE_LOW_9_QUOTE,
                single_quote_close |-> LEFT_SINGLE_QUOTE,
                ordinal_indicator |-> <<<<".">>>>,
                roman_ordinal_indicator |-> <<".">>,
                ordinal_date_first_space |-> <<NBSP>>,
                ordinal_date_second_space |-> <<NBSP>>,
                space_before_percent |-> <<NBSP>>,
                dash_space_before |-> <<NBSP>>,
                dash_char |-> <<EN_DASH>>,
                dash_space_after |-> <<SPACE>>,
                space_after_abbreviation |-> <<NBSP>>,
                space_after_copyright |-> <<SPACE>>,
                space_after_sound_recording_copyright |-> <<SPACE>>,
                space_after_numero_sign |-> <<NBSP>>,
                space_after_section_sign |-> <<NBSP>>,
                space_after_paragraph_sign |-> <<NBSP>>]
          [] id = SK ->
               [double_quote_open |-> DOUBLE_LOW_9_QUOTE,
                double_quote_close |-> LEFT_DOUBLE_QUOTE,
                single_quote_open |-> SINGLE_LOW_9_QUOTE,
                single_quote_close |-> LEFT_SINGLE_QUOTE,
                ordinal_indicator |-> <<<<".">>>>,
                roman_ordinal_indicator |-> <<".">>,
                ordinal_date_first_space |-> <<NBSP>>,
                ordinal_date_second_space |-> <<NBSP>>,
                space_before_percent |-> <<NBSP>>,
                dash_space_before |-> <<HAIR_SPACE>>,
                dash_char |-> <<EM_DASH>>,
                dash_space_after |-> <<HAIR_SPACE>>,
                space_after_abbreviation |-> <<NBSP>>,
                space_after_copyright |-> <<NBSP>>,
                space_after_sound_recording_copyright |-> <<NBSP>>,
                space_after_numero_sign |-> <<NBSP>>,
                space_after_section_sign |-> <<NARROW_NBSP>>,
                space_after_paragraph_sign |-> <<NARROW_NBSP>>]
          [] id = RUE ->
               [double_quote_open |-> LEFT_GUILLEMET,
                double_quote_close |-> RIGHT_GUILLEMET,
                single_quote_open |-> LEFT_SINGLE_GUILLEMET,
                single_quote_close |-> RIGHT_SINGLE_GUILLEMET,
                ordinal_indicator |-> <<<<".">>>>,
                roman_ordinal_indicator |-> <<".">>,
                ordinal_date_first_space |-> <<NBSP>>,
                ordinal_date_second_space |-> <<NBSP>>,
                space_before_percent |-> <<NBSP>>,
                dash_space_before |-> <<HAIR_SPACE>>,
                dash_char |-> <<EM_DASH>>,
                dash_space_after |-> <<HAIR_SPACE>>,
                space_after_abbreviation |-> <<NBSP>>,
                space_after_copyright |-> <<NBSP>>,
                space_after_sound_recording_copyright |-> <<NBSP>>,
                space_after_numero_sign |-> <<NBSP>>,
                space_after_section_sign |-> <<NARROW_NBSP>>,
                space_after_paragraph_sign |-> <<NARROW_NBSP>>]]

SUPPORTED_LOCALES == DOMAIN LOCALE_CONFIGS

\* str.lower on the ASCII letters.
ToLower(c) ==
    LET upper == <<"A","B","C","D","E","F","G","H","I","J","K","L","M",
                   "N","O","P","Q","R","S","T","U","V","W","X","Y","Z">>
        lower == <<"a","b","c","d","e","f","g","h","i","j","k","l","m",
                   "n","o","p","q","r","s","t","u","v","w","x","y","z">>
    IN  IF \E k \in 1..26 : upper[k] = c
        THEN lower[CHOOSE k \in 1..26 : upper[k] = c] ELSE c

LowerCase(t) == [k \in 1..Len(t) |-> ToLower(t[k])]

\* A normalization without the fall-back to DEFAULT_LOCALE for an id of no
\* supported locale.
lower_locale_id(locale_id) ==
    IF locale_id = None \/ locale_id = <<>> THEN DEFAULT_LOCALE
    ELSE LowerCase(locale_id)

\* A normalization that compares the id as it is written.
exact_locale_id(locale_id) ==
    IF locale_id = None \/ locale_id = <<>> THEN DEFAULT_LOCALE
    ELSE IF locale_id \notin SUPPORTED_LOCALES THEN DEFAULT_LOCALE
    ELSE locale_id

\* Locale._normalize_locale_id: None and the empty id are falsy.
normalize_locale_id(locale_id) ==
    IF locale_id = None \/ locale_id = <<>> THEN DEFAULT_LOCALE
    ELSE IF LowerCase(locale_id) \notin SUPPORTED_LOCALES THEN DEFAULT_LOCALE
    ELSE LowerCase(locale_id)

\* config = LOCALE_CONFIGS[normalized_id] raises KeyError for an id that is
\* no key of the table.
RaisesKeyError(normalized_id) == normalized_id \notin DOMAIN LOCALE_CONFIGS

\* Locale.__init__ and get_locale: the locale object of a call.
get_locale(locale_id) ==
    LET normalized_id == normalize_locale_id(locale_id)
    IN  [locale_id |-> normalized_id] @@ LOCALE_CONFIGS[normalized_id]

-----------------------------------------------------------------------------
(* Regular expressions: re.compile(...).sub(...) as the modules use it     *)
(*                                                                         *)
(* A pattern is a sequence of items.  An item is a character class with a  *)
(* greedy repetition, an anchor, a look-ahead, or a group of alternatives, *)
(* each alternative again a pattern.  MatchFrom is the match the re module *)
(* finds by backtracking: the ways to match the items so far are kept as a *)
(* list in the order backtracking tries them (a repetition as long as it   *)
(* can be before the shorter ones, alternatives in the order they are      *)
(* written), and the first way that reaches the end is the match.          *)

NEWLINE == "<nl>"

\* [set], one character
Cls(set) == [k |-> "cls", set |-> set, neg |-> FALSE, min |-> 1, max |-> 1,
             lazy |-> FALSE, g |-> 0]
\* [^set], one character
NotCls(set) == [k |-> "cls", set |-> set, neg |-> TRUE, min |-> 1, max |-> 1,
                lazy |-> FALSE, g |-> 0]
\* a literal character
Chr(c) == Cls({c})
\* a literal text; ci: under re.IGNORECASE
Str(s) == [k |-> "lit", s |-> s, ci |-> FALSE, g |-> 0]
StrI(s) == [k |-> "lit", s |-> s, ci |-> TRUE, g |-> 0]
\* item{min,max}; max = -1 is no upper limit
Rep(item, min, max) == [item EXCEPT !.min = min, !.max = max]
Opt(item) == Rep(item, 0, 1)
Star(item) == Rep(item, 0, -1)
Plus(item) == Rep(item, 1, -1)
\* item? after a quantifier: the shortest repetition is tried first
Lazy(item) == [item EXCEPT !.lazy = TRUE]
\* . and, under re.DOTALL, .
Dot == NotCls({"<nl>"})
DotAll == NotCls({})
\* (item) as capturing group n
Grp(n, item) == [item EXCEPT !.g = n]
\* (a|b|...) as capturing group n (n = 0: not capturing), alts the patterns
\* of the alternatives
Alt(n, alts) == [k |-> "alt", alts |-> alts, g |-> n]
\* ^ and $, ml: under re.MULTILINE
Bol(ml) == [k |-> "bol", ml |-> ml, g |-> 0]
Eol(ml) == [k |-> "eol", ml |-> ml, g |-> 0]
\* \b and \B
WordB == [k |-> "wb", neg |-> FALSE, g |-> 0]
NotWordB == [k |-> "wb", neg |-> TRUE, g |-> 0]
\* (?=pat) and (?!pat)
LookAhead(pat) == [k |-> "la", neg |-> FALSE, pat |-> pat, g |-> 0]
NotLookAhead(pat) == [k |-> "la", neg |-> TRUE, pat |-> pat, g |-> 0]
\* (?<=[set]) and (?<![set])
LookBehind(set) == [k |-> "lb", neg |-> FALSE, set |-> set, g |-> 0]
NotLookBehind(set) == [k |-> "lb", neg |-> TRUE, set |-> set, g |-> 0]
\* No group has taken part: each expands to the empty text.
NoCaps == [g \in 1..14 |-> <<1, 0>>]
Cap(caps, g, s, e) == IF g = 0 THEN caps ELSE [caps EXCEPT ![g] = <<s, e>>]

NoMatch == [ok |-> FALSE, end |-> 0, caps |-> NoCaps]

\* The number of characters from pos on that the class item can take.
ClsAvail(it, t, pos) ==
    LET stops == {j \in pos..Len(t) : (t[j] \in it.set) = it.neg}
        run == IF stops = {} THEN Len(t) + 1 - pos ELSE Min(stops) - pos
    IN  IF it.max # -1 /\ run > it.max THEN it.max ELSE run

\* A way the match has come so far: the position reached and the groups
\* closed; src is the way of the enclosing group it continues.
Thread(pos, caps) == [pos |-> pos, caps |-> caps, src |-> 0]

\* The way th after n more characters taken by group g.
Advance(th, g, n) ==
    [th EXCEPT !.pos = th.pos + n,
               !.caps = Cap(th.caps, g, th.pos, th.pos + n - 1)]

\* The n-th least number of the set.
Nth(set, n) == CHOOSE k \in set : Cardinality({d \in set : d < k}) = n - 1

\* Of the numbered ways keys, each at the position PosOf gives, the ones
\* the backtracking search comes to first at their position.
FirstAtPos(keys, PosOf(_)) ==
    {Min({k \in keys : PosOf(k) = p}) : p \in {PosOf(k) : k \in keys}}

\* The ways ths, each after n more characters taken by group g.
AdvanceAll(on, g, n) == [i \in 1..Len(on) |-> Advance(on[i], g, n)]

\* A class item that repeats: way number i * K + r is way i of ths after its
\* r-th choice of a count, the greatest count first unless the item is lazy.
ClsCount(it, avail, K, k) ==
    IF it.lazy THEN it.min + (k % K) - 1 ELSE avail[k \div K] - (k % K) + 1

ClsKeys(it, avail, K) ==
    UNION {{i * K + r : r \in 1..(avail[i] - it.min + 1)} : i \in 1..Len(avail)}

ClsWay(it, ths, avail, K, k) ==
    Advance(ths[k \div K], it.g, ClsCount(it, avail, K, k))

ClsWays(it, ths, avail, K, first) ==
    [n \in 1..Cardinality(first) |-> ClsWay(it, ths, avail, K, Nth(first, n))]

ClsStep(it, ths, avail, K) ==
    ClsWays(it, ths, avail, K,
            FirstAtPos(ClsKeys(it, avail, K),
                       LAMBDA k : ths[k \div K].pos + ClsCount(it, avail, K, k)))

\* A group of alternatives: way number (src * A + j) * K + x is the x-th way
\* out of alternative j that began as way src of ths.
AltKeys(ends, A, K) ==
    UNION {{(ends[j][x].src * A + j) * K + x : x \in 1..Len(ends[j])}
           : j \in 1..Len(ends)}

AltEnd(ends, A, K, k) == ends[(k \div K) % A][k % K]

AltWay(it, th, began) ==
    [pos |-> th.pos,
     caps |-> Cap(th.caps, it.g, began.pos, th.pos - 1),
     src |-> began.src]

AltWayOf(it, ths, th) == AltWay(it, th, ths[th.src])

AltWays(it, ths, ends, A, K, first) ==
    [n \in 1..Cardinality(first) |->
        AltWayOf(it, ths, AltEnd(ends, A, K, Nth(first, n)))]

AltStep(it, ths, ends, A, K) ==
    AltWays(it, ths, ends, A, K,
            FirstAtPos(AltKeys(ends, A, K), LAMBDA k : AltEnd(ends, A, K, k).pos))

\* The ways numbered by their place in ths.
Numbered(ths) == [i \in 1..Len(ths) |-> [ths[i] EXCEPT !.src = i]]

LitHere(it, t, here) == here = it.s \/ (it.ci /\ LowerCase(here) = LowerCase(it.s))

\* The ways the match can go on from the ways ths, in the order in which
\* the backtracking search of the re module tries them: Run over the items
\* of a pattern, Step over one item.  Of two ways at one position the search
\* succeeds on the later one only if it succeeds on the earlier one, so the
\* earlier one stands for both.
RECURSIVE Run(_, _, _)
RECURSIVE Step(_, _, _)
Step(it, ths, t) ==
    CASE it.k = "cls" /\ it.min = 1 /\ it.max = 1 ->
           AdvanceAll(SelectSeq(ths, LAMBDA th :
                          th.pos <= Len(t) /\ (t[th.pos] \in it.set) # it.neg),
                      it.g, 1)
      [] it.k = "cls" ->
           ClsStep(it, ths, Stored([i \in 1..Len(ths) |-> ClsAvail(it, t, ths[i].pos)]),
                   Len(t) + 2)
      [] it.k = "lit" ->
           AdvanceAll(SelectSeq(ths, LAMBDA th :
                          /\ th.pos + Len(it.s) - 1 <= Len(t)
                          /\ LitHere(it, t, SubSeq(t, th.pos, th.pos + Len(it.s) - 1))),
                      it.g, Len(it.s))
      [] it.k = "alt" ->
           AltStep(it, ths,
                   Stored([j \in 1..Len(it.alts) |->
                              Run(it.alts[j], Numbered(ths), t)]),
                   Len(it.alts) + 1, Len(t) + 2)
      [] it.k = "bol" ->
           SelectSeq(ths, LAMBDA th :
               th.pos = 1 \/ (it.ml /\ At(t, th.pos - 1) = NEWLINE))
      [] it.k = "eol" ->
           SelectSeq(ths, LAMBDA th :
               \/ th.pos = Len(t) + 1
               \/ th.pos = Len(t) /\ t[th.pos] = NEWLINE
               \/ it.ml /\ At(t, th.pos) = NEWLINE)
      [] it.k = "wb" ->
           SelectSeq(ths, LAMBDA th : WordBoundaryBefore(t, th.pos) # it.neg)
      [] it.k = "la" ->
           SelectSeq(ths, LAMBDA th : (Run(it.pat, <<th>>, t) # <<>>) # it.neg)
      [] it.k = "lb" ->
           SelectSeq(ths, LAMBDA th :
               (th.pos > 1 /\ t[th.pos - 1] \in it.set) # it.neg)

Run(items, ths, t) ==
    IF ths = <<>> \/ items = <<>> THEN ths
    ELSE IF Len(items) = 1 THEN Step(items[1], ths, t)
    ELSE LET mid == Len(items) \div 2
         IN  CHOOSE r \in {Run(SubSeq(items, mid + 1, Len(items)), half, t)
                           : half \in {Run(SubSeq(items, 1, mid), ths, t)}} : TRUE

\* The match of the re module from position pos on: the first way through
\* all the items.
ThreadsMatch(ths) ==
    IF ths = <<>> THEN NoMatch
    ELSE [ok |-> TRUE, end |-> ths[1].pos - 1, caps |-> ths[1].caps]

MatchFrom(items, t, pos, caps) ==
    ThreadsMatch(Run(items, <<Thread(pos, caps)>>, t))

\* The match of the pattern that starts at position j.
StartedAt(r, j) == [ok |-> r.ok, start |-> j, end |-> r.end, caps |-> r.caps]

MatchAt(pattern, t, j) == StartedAt(MatchFrom(pattern, t, j, NoCaps), j)

\* match.group(n), n >= 1, and match.group(0)
Group(t, m, n) == SubSeq(t, m.caps[n][1], m.caps[n][2])
Group0(t, m) == SubSeq(t, m.start, m.end)

\* A match needs a character of each class the pattern takes at least once,
\* and of some alternative of each of its groups.
RECURSIVE CanMatch(_, _)
CanMatch(pattern, t) ==
    \A k \in 1..Len(pattern) :
        /\ (pattern[k].k = "cls" /\ ~pattern[k].neg /\ pattern[k].min >= 1)
               => HasChar(t, pattern[k].set)
        /\ pattern[k].k = "lit"
               => IF pattern[k].ci
                  THEN Contains(LowerCase(t), LowerCase(pattern[k].s))
                  ELSE Contains(t, pattern[k].s)
        /\ pattern[k].k = "alt"
               => \E a \in 1..Len(pattern[k].alts) : CanMatch(pattern[k].alts[a], t)

\* pattern.sub(repl, t) for a callable repl: Repl(t, m) is the text that
\* replaces the match m.  Matches are found left to right and do not
\* overlap; an empty match is replaced too and the scan moves on by one.
\* The matches of the pattern by the position where they start.
MatchesOf(pattern, t) ==
    Stored([j \in 1..(Len(t) + 1) |-> MatchAt(pattern, t, j)])

FirstOf(ms, starts) ==
    IF starts = {} THEN StartedAt(NoMatch, 0) ELSE ms[Min(starts)]

\* The leftmost match that starts at position i or after it.
FirstMatch(ms, i) == FirstOf(ms, {j \in i..Len(ms) : ms[j].ok})

\* The text from position i on after the substitution, m being the first
\* match from i on and f the same text from the later positions on.
SubStep(t, i, m, f, Repl(_, _)) ==
    IF ~m.ok THEN SubSeq(t, i, Len(t))
    ELSE SubSeq(t, i, m.start - 1) \o Repl(t, m)
         \o (IF m.end >= m.start THEN f[m.end + 1]
             ELSE (IF m.start <= Len(t) THEN <<t[m.start]>> ELSE <<>>)
                  \o f[m.start + 1])

SubMatches(t, ms, Repl(_, _)) ==
    LET f[i \in 1..(Len(t) + 2)] == SubStep(t, i, FirstMatch(ms, i), f, Repl)
    IN  f[1]

RegexSubFn(pattern, t, Repl(_, _)) ==
    IF CanMatch(pattern, t) THEN SubMatches(t, MatchesOf(pattern, t), Repl) ELSE t

\* A replacement template: group references and literal text.
Ref(n) == [g |-> n, s |-> <<>>]
Lit(s) == [g |-> 0, s |-> s]

\* match.expand(template)
Expand(template, t, m) ==
    LET f[k \in 1..(Len(template) + 1)] ==
            IF k > Len(template) THEN <<>>
            ELSE (IF template[k].g = 0 THEN template[k].s
                  ELSE Group(t, m, template[k].g))
                 \o f[k + 1]
    IN  f[1]

\* pattern.sub(template, t)
RegexSub(pattern, template, t) ==
    RegexSubFn(pattern, t, LAMBDA tt, m : Expand(template, tt, m))

-----------------------------------------------------------------------------
(* The overlap-safe rewriter: src/src/pytypopo/utils/regex_overlap.py      *)

MAX_ITERATIONS == 50

\* The while loop of replace_with_overlap_handling, from the state
\* (result, previous_result, iterations) on.
RECURSIVE OverlapLoop(_, _, _, _, _)
OverlapLoop(result, previous_result, iterations, pattern, replacement) ==
    IF result # previous_result /\ iterations < MAX_ITERATIONS
    THEN OverlapLoop(RegexSub(pattern, replacement, result), result,
                     iterations + 1, pattern, replacement)
    ELSE result

replace_with_overlap_handling(text, pattern, replacement) ==
    OverlapLoop(text, <<>>, 0, pattern, replacement)

-----------------------------------------------------------------------------
(* Simple stages: modules/whitespace/lines.py, modules/punctuation/        *)
(* period.py, modules/punctuation/ellipsis.py                              *)

\* The pattern of a literal text.
LitPat(s) == <<Str(s)>>
Sp == <<SPACE>>

\* re.sub(r"[\n\r]{2,}", "\n", text)
fix_lines(text) ==
    RegexSub(<<Rep(Cls({NEWLINE, "<cr>"}), 2, -1)>>, <<Lit(<<NEWLINE>>)>>, text)

\* _EXTRA_PERIOD_PATTERN: \.{2,}(?![/\\])
remove_extra_period(text) ==
    RegexSub(<<Rep(Chr("."), 2, -1), NotLookAhead(<<Cls({"/", "<backslash>"})>>)>>,
             <<Lit(<<".">>)>>, text)

fix_period(text) == remove_extra_period(text)

replace_three_chars_with_ellipsis(text) ==
    RegexSub(<<Rep(Cls({ELLIPSIS, "."}), 3, -1)>>, <<Lit(<<ELLIPSIS>>)>>, text)

replace_two_chars_with_ellipsis(text) ==
    RegexSub(<<Alt(0, << <<Chr("."), Chr(ELLIPSIS)>>,
                        <<Rep(Chr(ELLIPSIS), 2, -1)>>,
                        <<Chr(ELLIPSIS), Chr(".")>> >>)>>,
             <<Lit(<<ELLIPSIS>>)>>, text)

replace_two_periods_with_ellipsis(text) ==
    RegexSub(<<Cls(SPACES), Rep(Chr("."), 2, 2), Cls(SPACES)>>,
             <<Lit(<<SPACE, ELLIPSIS, SPACE>>)>>, text)

fix_ellipsis_spacing_around_commas(text) ==
    RegexSub(<<Grp(1, Chr(",")), Grp(2, Opt(Cls(SPACES))), Grp(3, Chr(ELLIPSIS)),
               Grp(4, Opt(Cls(SPACES))), Grp(5, Chr(","))>>,
             <<Ref(1), Lit(<<SPACE, ELLIPSIS>>), Ref(5)>>, text)

fix_ellipsis_as_last_item(text) ==
    RegexSub(<<Grp(1, Chr(",")), Grp(2, Opt(Cls(SPACES))), Grp(3, Chr(ELLIPSIS)),
               Grp(4, Opt(Cls(SPACES))),
               Alt(5, << <<NotWordB>>, <<Cls(CLOSING_BRACKETS)>> >>),
               Alt(6, << <<NotCls({","})>>, <<Eol(FALSE)>> >>)>>,
             <<Ref(1), Ref(3), Ref(5), Ref(6)>>, text)

fix_aposiopesis_starting_paragraph(text) ==
    RegexSub(<<Alt(1, << <<Bol(TRUE), Chr(ELLIPSIS)>> >>), Grp(2, Cls(SPACES)),
               Grp(3, Cls(ALL_CHARS))>>,
             <<Ref(1), Ref(3)>>, text)

fix_aposiopesis_starting_sentence(text, loc) ==
    RegexSub(<<Grp(1, NotCls({loc.double_quote_close, loc.single_quote_close})),
               Grp(2, Cls(SENTENCE_PUNCTUATION)), Grp(3, Opt(Cls(SPACES))),
               Grp(4, Chr(ELLIPSIS)), Grp(5, Opt(Cls(SPACES))),
               Grp(6, Cls(LOWERCASE_CHARS))>>,
             <<Ref(1), Ref(2), Lit(Sp), Ref(4), Ref(6)>>, text)

fix_aposiopesis_between_sentences(text) ==
    RegexSub(<<Grp(1, Cls(LOWERCASE_CHARS)), Grp(2, Cls(SPACES)),
               Grp(3, Chr(ELLIPSIS)), Grp(4, Opt(Cls(SPACES))),
               Grp(5, Cls(UPPERCASE_CHARS))>>,
             <<Ref(1), Ref(3), Lit(Sp), Ref(5)>>, text)

fix_aposiopesis_between_words(text) ==
    RegexSub(<<Grp(1, Cls(ALL_CHARS)), Grp(2, Chr(ELLIPSIS)), Grp(3, Cls(ALL_CHARS))>>,
             <<Ref(1), Ref(2), Lit(Sp), Ref(3)>>, text)

fix_ellipsis_between_sentences(text, loc) ==
    RegexSub(<<Grp(1, Cls(SENTENCE_PUNCTUATION
                          \cup {loc.double_quote_close, loc.single_quote_close})),
               Grp(2, Opt(Cls(SPACES))), Grp(3, Chr(ELLIPSIS)),
               Grp(4, Opt(Cls(SPACES))), Grp(5, Cls(UPPERCASE_CHARS))>>,
             <<Ref(1), Lit(Sp), Ref(3), Lit(Sp), Ref(5)>>, text)

fix_aposiopesis_ending_paragraph(text, loc) ==
    RegexSub(<<Grp(1, Cls(LOWERCASE_CHARS)), Plus(Cls(SPACES)),
               Alt(3, << <<Chr(ELLIPSIS),
                           Opt(Cls({loc.double_quote_close, loc.single_quote_close})),
                           Eol(TRUE)>> >>)>>,
             <<Ref(1), Ref(3)>>, text)

fix_ellipsis(text, loc) ==
    replace_two_periods_with_ellipsis((replace_two_chars_with_ellipsis((fix_aposiopesis_ending_paragraph((fix_ellipsis_between_sentences((fix_aposiopesis_between_words((fix_aposiopesis_between_sentences((fix_aposiopesis_starting_sentence((fix_aposiopesis_starting_paragraph((fix_ellipsis_as_last_item((fix_ellipsis_spacing_around_commas((replace_three_chars_with_ellipsis(text)))))))), loc)))))), loc)), loc)))))

-----------------------------------------------------------------------------
(* Spaces: src/src/pytypopo/modules/whitespace/spaces.py                   *)

DEGREE == "<degree>"

\* "\n".join(F(line) for line in text.split("\n"))
MapLines(text, F(_)) ==
    LET f[i \in 1..(Len(text) + 1)] ==
            LET nl == Find(text, <<NEWLINE>>, i)
            IN  IF nl = 0 THEN F(SubSeq(text, i, Len(text)))
                ELSE F(SubSeq(text, i, nl - 1)) \o <<NEWLINE>> \o f[nl + 1]
    IN  f[1]

remove_multiple_spaces(text) ==
    RegexSub(<<Grp(1, NotCls(Whitespace)), Rep(Cls(SPACES), 2, -1),
               Grp(2, NotCls(Whitespace))>>,
             <<Ref(1), Lit(Sp), Ref(2)>>, text)

\* config is None in fix_typos, so remove_whitespaces_before_markdown_list
\* is True and the replacer returns the markdown indicator alone.
remove_spaces_at_paragraph_beginning(text) ==
    MapLines(text,
             LAMBDA line :
                 RegexSub(<<Bol(FALSE), Grp(1, Plus(Cls(Whitespace))),
                            Grp(2, Star(Cls({"-", "*", "+", ">"})))>>,
                          <<Ref(2)>>, line))

remove_spaces_at_paragraph_end(text) ==
    MapLines(text,
             LAMBDA line :
                 RegexSub(<<Plus(Cls(Whitespace)), Eol(FALSE)>>, <<>>, line))

remove_space_before_sentence_pause_punctuation(text) ==
    RegexSub(<<Cls(SPACES), Grp(1, Cls(SENTENCE_PAUSE_PUNCTUATION)),
               Alt(2, << <<NotCls({"-", ")"})>>, <<Eol(FALSE)>> >>)>>,
             <<Ref(1), Ref(2)>>, text)

remove_space_before_terminal_punctuation(text) ==
    RegexSub(<<Grp(1, NotCls(OPENING_BRACKETS)), Cls(SPACES),
               Grp(2, Cls(TERMINAL_PUNCTUATION \cup CLOSING_BRACKETS \cup {DEGREE}))>>,
             <<Ref(1), Ref(2)>>, text)

\* The alternatives of the ordinal indicator of the locale, as patterns.
OrdinalAlts(loc) ==
    [k \in 1..Len(loc.ordinal_indicator) |-> LitPat(loc.ordinal_indicator[k])]

remove_space_before_ordinal_indicator(text, loc) ==
    RegexSub(<<Grp(1, Cls(Digits)), Opt(Cls(SPACES)), Alt(2, OrdinalAlts(loc)),
               Alt(3, << <<Cls(SPACES)>>, <<WordB>> >>)>>,
             <<Ref(1), Ref(2), Ref(3)>>, text)

remove_space_after_opening_brackets(text) ==
    RegexSub(<<Grp(1, Cls(OPENING_BRACKETS)), Cls(SPACES),
               Grp(2, NotCls(CLOSING_BRACKETS))>>,
             <<Ref(1), Ref(2)>>, text)

\* The replacer keeps "name(s)" and "name(es)" as they are.
add_space_before_opening_brackets(text) ==
    RegexSubFn(<<Grp(1, Cls(ALL_CHARS)), Grp(2, Cls(OPENING_BRACKETS)),
                 Grp(3, Cls(ALL_CHARS \cup {ELLIPSIS})),
                 Grp(4, Cls(ALL_CHARS \cup {ELLIPSIS} \cup CLOSING_BRACKETS))>>,
               text,
               LAMBDA t, m :
                   LET char3 == Group(t, m, 3)
                       char4 == Group(t, m, 4)
                   IN  IF \/ char3 \in {<<"s">>, <<"S">>}
                          \/ char3 \o char4 \in {<<"e", "s">>, <<"E", "S">>}
                       THEN Expand(<<Ref(1), Ref(2), Ref(3), Ref(4)>>, t, m)
                       ELSE Expand(<<Ref(1), Lit(Sp), Ref(2), Ref(3), Ref(4)>>, t, m))

add_space_after_terminal_punctuation(text) ==
    RegexSub(<<Alt(1, << <<Rep(Cls(ALL_CHARS), 2, -1)>>, <<Chr(ELLIPSIS)>> >>),
               Grp(2, Cls(TERMINAL_PUNCTUATION)), Grp(3, Cls(UPPERCASE_CHARS))>>,
             <<Ref(1), Ref(2), Lit(Sp), Ref(3)>>, text)

add_space_after_sentence_pause(text) ==
    RegexSub(<<Alt(1, << <<Rep(Cls(ALL_CHARS), 2, -1)>>, <<Chr(ELLIPSIS)>> >>),
               Grp(2, Cls(SENTENCE_PAUSE_PUNCTUATION)), Grp(3, Cls(ALL_CHARS))>>,
             <<Ref(1), Ref(2), Lit(Sp), Ref(3)>>, text)

add_space_after_closing_brackets(text) ==
    RegexSub(<<Grp(1, Cls(CLOSING_BRACKETS)), Grp(2, Cls(ALL_CHARS))>>,
             <<Ref(1), Lit(Sp), Ref(2)>>, text)

fix_spaces(text, loc) ==
    add_space_after_sentence_pause((add_space_after_closing_brackets((add_space_after_terminal_punctuation((add_space_before_opening_brackets((remove_space_after_opening_brackets((remove_space_before_ordinal_indicator((remove_space_before_terminal_punctuation((remove_space_before_sentence_pause_punctuation((remove_spaces_at_paragraph_end((remove_spaces_at_paragraph_beginning((remove_multiple_spaces(text)))))))))), loc)))))))))))

-----------------------------------------------------------------------------
(* Dashes: src/src/pytypopo/modules/punctuation/dash.py                    *)

PERCENT == "%"
PERMILLE == "<permille>"
PERMYRIAD == "<permyriad>"

\* str.upper on the ASCII letters, for patterns under re.IGNORECASE.
ToUpper(c) ==
    LET upper == <<"A","B","C","D","E","F","G","H","I","J","K","L","M",
                   "N","O","P","Q","R","S","T","U","V","W","X","Y","Z">>
        lower == <<"a","b","c","d","e","f","g","h","i","j","k","l","m",
                   "n","o","p","q","r","s","t","u","v","w","x","y","z">>
    IN  IF \E k \in 1..26 : lower[k] = c
        THEN upper[CHOOSE k \in 1..26 : lower[k] = c] ELSE c

\* The pattern of a literal text under re.IGNORECASE.
LitPatI(s) == <<StrI(s)>>

\* f"{loc.dash_space_before}{loc.dash_char}{loc.dash_space_after}"
DashReplacement(loc) == loc.dash_space_before \o loc.dash_char \o loc.dash_space_after

fix_dashes_between_words(text, loc) ==
    RegexSub(<<Grp(1, Cls(ALL_CHARS \cup Digits)),
               Alt(2, << <<Star(Cls(SPACES)), Rep(Cls({EN_DASH, EM_DASH}), 1, 3),
                           Star(Cls(SPACES))>>,
                         <<Plus(Cls(SPACES)), Rep(Chr(HYPHEN), 1, 3),
                           Plus(Cls(SPACES))>> >>),
               Grp(3, Cls(ALL_CHARS \cup Digits))>>,
             <<Ref(1), Lit(DashReplacement(loc)), Ref(3)>>, text)

\* The pattern of fix_dash_between_word_and_punctuation with "+" in place of
\* "{1,3}": dashes before a punctuation mark however many they are.
fix_any_dashes_between_word_and_punctuation(text, loc) ==
    RegexSub(<<Grp(1, Cls(ALL_CHARS)), Grp(2, Opt(Cls(SPACES))),
               Grp(3, Plus(Cls(Dashes))), Grp(4, Opt(Cls(SPACES))),
               Alt(5, << <<Cls(SENTENCE_PUNCTUATION)>>, <<Chr(NEWLINE)>>,
                         <<Chr("<cr>")>> >>)>>,
             <<Ref(1), Lit(loc.dash_space_before \o loc.dash_char), Ref(5)>>, text)

fix_dash_between_word_and_punctuation(text, loc) ==
    RegexSub(<<Grp(1, Cls(ALL_CHARS)), Grp(2, Opt(Cls(SPACES))),
               Grp(3, Rep(Cls(Dashes), 1, 3)), Grp(4, Opt(Cls(SPACES))),
               Alt(5, << <<Cls(SENTENCE_PUNCTUATION)>>, <<Chr(NEWLINE)>>,
                         <<Chr("<cr>")>> >>)>>,
             <<Ref(1), Lit(loc.dash_space_before \o loc.dash_char), Ref(5)>>, text)

\* One of the five patterns "left, dashes, right" of
\* fix_dash_between_word_and_brackets; max is the most dashes it takes.
BracketDash(text, loc, left, right, max) ==
    RegexSub(<<Grp(1, Cls(left)), Star(Cls(SPACES)), Rep(Cls(Dashes), 1, max),
               Star(Cls(SPACES)), Grp(2, Cls(right))>>,
             <<Ref(1), Lit(DashReplacement(loc)), Ref(2)>>, text)

fix_dash_between_word_and_brackets(text, loc) ==
    BracketDash((BracketDash((BracketDash((BracketDash((
        \* pattern_word_open, pattern_close_word, pattern_word_close,
        \* pattern_open_word, pattern_close_open
        BracketDash((
        \* pattern_within
        RegexSub(<<Grp(1, Cls(OPENING_BRACKETS)), Star(Cls(SPACES)),
                         Grp(2, Plus(Cls(Dashes))), Star(Cls(SPACES)),
                         Grp(3, Cls(CLOSING_BRACKETS))>>,
                       <<Ref(1), Ref(2), Ref(3)>>, text)), loc, ALL_CHARS, OPENING_BRACKETS, 3)), loc, CLOSING_BRACKETS, ALL_CHARS, 3)), loc, ALL_CHARS, CLOSING_BRACKETS, 3)), loc, OPENING_BRACKETS, ALL_CHARS, 3)), loc, CLOSING_BRACKETS, OPENING_BRACKETS, 1)

\* "{{typopo__endash}}"
ENDASH_PLACEHOLDER ==
    <<"{", "{", "t", "y", "p", "o", "p", "o", "_", "_", "e", "n", "d", "a",
      "s", "h", "}", "}">>

\* The pattern of fix_dash_between_cardinal_numbers and its replacement
\* r"\1{{typopo__endash}}\3".
CardinalPattern ==
    <<Grp(1, Cls(Digits)),
      Alt(2, << <<Opt(Cls(SPACES)), Rep(Cls(Dashes), 1, 3), Opt(Cls(SPACES))>> >>),
      Grp(3, Cls(Digits))>>

CardinalReplacement == <<Ref(1), Lit(ENDASH_PLACEHOLDER), Ref(3)>>

\* The substitution done once, as re.sub does it, without the loop of
\* replace_with_overlap_handling.
fix_dash_between_cardinal_numbers_once(text) ==
    ReplaceAll(RegexSub(CardinalPattern, CardinalReplacement, text),
               ENDASH_PLACEHOLDER, <<EN_DASH>>)

fix_dash_between_cardinal_numbers(text) ==
    ReplaceAll(replace_with_overlap_handling(text, CardinalPattern,
                                             CardinalReplacement),
               ENDASH_PLACEHOLDER, <<EN_DASH>>)

fix_dash_between_percentage_range(text) ==
    RegexSub(<<Grp(1, Cls({PERCENT, PERMILLE, PERMYRIAD})),
               Alt(2, << <<Opt(Cls(SPACES)), Rep(Cls(Dashes), 1, 3),
                           Opt(Cls(SPACES))>> >>),
               Grp(3, Cls(Digits))>>,
             <<Ref(1), Lit(<<EN_DASH>>), Ref(3)>>, text)

\* The alternatives of the ordinal indicator under re.IGNORECASE.
OrdinalAltsI(loc) ==
    [k \in 1..Len(loc.ordinal_indicator) |-> LitPatI(loc.ordinal_indicator[k])]

fix_dash_between_ordinal_numbers(text, loc) ==
    RegexSub(<<Grp(1, Cls(Digits)), Alt(2, OrdinalAltsI(loc)),
               Alt(3, << <<Opt(Cls(SPACES)), Rep(Cls(Dashes), 1, 3),
                           Opt(Cls(SPACES))>> >>),
               Grp(4, Cls(Digits)), Alt(5, OrdinalAltsI(loc))>>,
             <<Ref(1), Ref(2), Lit(<<EN_DASH>>), Ref(4), Ref(5)>>, text)

fix_dash(text, loc) ==
    fix_dash_between_ordinal_numbers((fix_dash_between_percentage_range((fix_dash_between_cardinal_numbers((fix_dash_between_word_and_brackets((fix_dash_between_word_and_punctuation((fix_dashes_between_words(text, loc)), loc)), loc)))))), loc)

-----------------------------------------------------------------------------
(* Non-breaking spaces: src/src/pytypopo/modules/whitespace/nbsp.py        *)

APOSTROPHE == RIGHT_SINGLE_QUOTE
PLUS == "+"
MINUS == "<minus>"
MULTIPLICATION_SIGN == "<times>"
COPYRIGHT == "<copyright>"
REGISTERED_TRADEMARK == "<registered>"
SOUND_RECORDING_COPYRIGHT == "<soundcopyright>"
ROMAN_NUMERALS == {"I", "V", "X", "L", "C", "D", "M"}
Nb == <<NBSP>>

remove_nbsp_between_multi_char_words(text) ==
    replace_with_overlap_handling(
        text,
        <<Grp(1, Rep(Cls(ALL_CHARS), 2, -1)), Cls({NBSP, NARROW_NBSP}),
          Grp(2, Rep(Cls(ALL_CHARS), 2, -1))>>,
        <<Ref(1), Lit(Sp), Ref(2)>>)

add_nbsp_after_preposition(text, loc) ==
    LET \* pattern_lower
        t1 == replace_with_overlap_handling(
                  text,
                  <<Alt(1, << <<Bol(FALSE)>>, <<Chr(SPACE)>>,
                              <<NotCls(ALL_CHARS \cup Digits
                                       \cup {APOSTROPHE, PLUS, MINUS, HYPHEN})>> >>),
                    Grp(2, Cls(LOWERCASE_CHARS)), Grp(3, Chr(SPACE))>>,
                  <<Ref(1), Ref(2), Lit(Nb)>>)
        \* pattern_upper
        t2 == RegexSub(<<Alt(1, << <<Bol(FALSE)>>,
                                   <<Cls(SENTENCE_PUNCTUATION
                                         \cup {ELLIPSIS, COPYRIGHT, REGISTERED_TRADEMARK,
                                               SOUND_RECORDING_COPYRIGHT})>> >>),
                         Grp(2, Opt(Cls(SPACES))), Grp(3, Cls(UPPERCASE_CHARS)),
                         Grp(4, Cls(SPACES))>>,
                       <<Ref(1), Ref(2), Ref(3), Lit(Nb)>>, t1)
        \* pattern_i
        t3 == RegexSub(<<Alt(1, << <<Bol(FALSE)>>, <<Cls(SPACES)>> >>),
                         Grp(2, Chr("I")), Grp(3, Cls(SPACES))>>,
                       <<Ref(1), Ref(2), Lit(Nb)>>, t2)
    IN  IF loc.locale_id = EN_US THEN t3 ELSE t2

add_nbsp_after_ampersand(text) ==
    RegexSub(<<Grp(1, Cls(SPACES)), Grp(2, Chr("&")), Grp(3, Cls(SPACES))>>,
             <<Lit(Sp), Ref(2), Lit(Nb)>>, text)

add_nbsp_after_cardinal_number(text) ==
    RegexSub(<<Alt(1, << <<NotCls({NBSP} \cup Digits)>>, <<Bol(FALSE)>> >>),
               Grp(2, Rep(Cls(Digits), 1, 2)), Grp(3, Cls(SPACES)),
               Grp(4, Cls(ALL_CHARS))>>,
             <<Ref(1), Ref(2), Lit(Nb), Ref(4)>>, text)

add_nbsp_after_ordinal_number(text, loc) ==
    RegexSub(<<Alt(1, << <<NotCls({NBSP, "_", "%", "-"} \cup Digits)>>,
                         <<Bol(FALSE)>> >>),
               Grp(2, Rep(Cls(Digits), 1, 2)), Alt(3, OrdinalAlts(loc)),
               Grp(4, Opt(Cls(SPACES))), Grp(5, Cls(ALL_CHARS))>>,
             <<Ref(1), Ref(2), Ref(3), Lit(Nb), Ref(5)>>, text)

add_nbsp_within_ordinal_date(text, loc) ==
    RegexSub(<<Grp(1, Cls(Digits)), Grp(2, Chr(".")), Grp(3, Opt(Cls(SPACES))),
               Grp(4, Cls(Digits)), Grp(5, Chr(".")), Grp(6, Opt(Cls(SPACES))),
               Grp(7, Cls(Digits))>>,
             <<Ref(1), Ref(2), Lit(loc.ordinal_date_first_space), Ref(4), Ref(5),
               Lit(loc.ordinal_date_second_space), Ref(7)>>, text)

\* The replacer leaves the match alone when group 1, an abbreviated name
\* before the numeral, took part.
add_nbsp_after_roman_numeral(text, loc) ==
    LET ind == LitPat(loc.roman_ordinal_indicator)
    IN  IF loc.roman_ordinal_indicator = <<>> THEN text
        ELSE RegexSubFn(
                 <<Alt(1, << <<WordB, Cls(UPPERCASE_CHARS), Opt(Cls(ALL_CHARS))>>
                             \o ind \o <<Opt(Cls(SPACES))>>,
                             <<>> >>),
                   Alt(2, << <<WordB>> >>), Grp(3, Plus(Cls(ROMAN_NUMERALS))),
                   Alt(4, <<ind>>), Grp(5, Opt(Cls(SPACES))),
                   Grp(6, Cls(ALL_CHARS \cup Digits))>>,
                 text,
                 LAMBDA t, m :
                     IF Group(t, m, 1) # <<>> THEN Group0(t, m)
                     ELSE Expand(<<Ref(2), Ref(3), Ref(4), Lit(Nb), Ref(6)>>, t, m))

add_nbsp_before_single_letter(text, loc) ==
    LET uppercase_chars == IF loc.locale_id = EN_US THEN UPPERCASE_CHARS \ {"I"}
                           ELSE UPPERCASE_CHARS
    IN  RegexSubFn(
            <<Grp(1, NotCls(SENTENCE_PUNCTUATION \cup CLOSING_BRACKETS
                            \cup {ELLIPSIS, loc.double_quote_close,
                                  loc.single_quote_close, APOSTROPHE,
                                  MULTIPLICATION_SIGN, EM_DASH, EN_DASH})),
              Grp(2, Cls(SPACES)), Grp(3, Cls(uppercase_chars)),
              Alt(4, << <<Grp(5, Cls(SPACES))>>,
                        <<Alt(6, << <<Opt(Chr(".")), Eol(FALSE)>>,
                                    <<Eol(FALSE)>> >>)>> >>)>>,
            text,
            LAMBDA t, m :
                IF /\ loc.locale_id # EN_US
                   /\ Group(t, m, 3) = <<"I">>
                   /\ Group(t, m, 5) \in {<<NBSP>>, <<HAIR_SPACE>>, <<NARROW_NBSP>>}
                THEN Expand(<<Ref(1), Lit(Nb), Ref(3), Lit(Sp)>>, t, m)
                ELSE Expand(<<Ref(1), Lit(Nb), Ref(3), Ref(4)>>, t, m))

fix_nbsp_for_name_with_regnal_number(text, loc) ==
    LET ind == LitPat(loc.roman_ordinal_indicator)
    IN  IF loc.roman_ordinal_indicator = <<>> THEN text
        ELSE RegexSubFn(
                 <<Alt(1, << <<WordB, Cls(UPPERCASE_CHARS),
                               Plus(Cls(LOWERCASE_CHARS))>> >>),
                   Grp(2, Cls(SPACES)),
                   Alt(3, << <<Plus(Cls(ROMAN_NUMERALS)), WordB>> >>),
                   Alt(4, <<ind>>), Grp(5, Opt(Chr(NBSP)))>>,
                 text,
                 LAMBDA t, m :
                     IF Group(t, m, 3) = <<"I">>
                     THEN Expand(<<Ref(1), Lit(Sp), Ref(3), Ref(4), Ref(5)>>, t, m)
                     ELSE IF Group(t, m, 5) = <<>>
                     THEN Expand(<<Ref(1), Lit(Nb), Ref(3), Ref(4)>>, t, m)
                     ELSE Expand(<<Ref(1), Lit(Nb), Ref(3), Ref(4), Lit(Sp)>>, t, m))

fix_space_before_percent(text, loc) ==
    RegexSub(<<Grp(1, Cls(Digits)), Grp(2, Cls(SPACES)),
               Grp(3, Cls({PERCENT, PERMILLE, PERMYRIAD}))>>,
             <<Ref(1), Lit(loc.space_before_percent), Ref(3)>>, text)

fix_nbsp(text, loc) ==
    fix_space_before_percent((fix_nbsp_for_name_with_regnal_number((add_nbsp_before_single_letter((add_nbsp_after_roman_numeral((add_nbsp_within_ordinal_date((add_nbsp_after_ordinal_number((add_nbsp_after_cardinal_number((add_nbsp_after_ampersand((add_nbsp_after_preposition((remove_nbsp_between_multi_char_words(text)), loc)))))), loc)), loc)), loc)), loc)), loc)), loc)

-----------------------------------------------------------------------------
(* Markdown code spans: src/src/pytypopo/utils/markdown.py                 *)

\* re.finditer(pattern, t): the matches from left to right
FindStep(m, f) ==
    IF ~m.ok THEN <<>>
    ELSE <<m>> \o f[IF m.end >= m.start THEN m.end + 1 ELSE m.start + 1]

FindMatches(ms) ==
    LET f[i \in 1..(Len(ms) + 1)] == FindStep(FirstMatch(ms, i), f)
    IN  f[1]

FindAll(pattern, t) ==
    IF CanMatch(pattern, t) THEN FindMatches(MatchesOf(pattern, t)) ELSE <<>>

\* make_placeholder(index)
MarkdownPlaceholder(index) ==
    <<NUL>> \o <<"T", "Y", "P", "O", "P", "O", "_", "M", "D", "_">> \o DecimalString(index) \o <<"_", "D", "M", "_", "O", "P", "Y", "P", "O", "T">> \o <<NUL>>

\* re.sub(pattern, extract_block, text): each match, from left to right, is
\* appended to code_blocks and gives way to the placeholder of its index.
BlocksOf(ms, text, code_blocks) ==
    LET base == Len(code_blocks)
        build[k \in 1..(Len(ms) + 1)] ==
            IF k > Len(ms) THEN <<>>
            ELSE MarkdownPlaceholder(base + k - 1)
                 \o SubSeq(text, ms[k].end + 1,
                           IF k < Len(ms) THEN ms[k + 1].start - 1 ELSE Len(text))
                 \o build[k + 1]
    IN  IF ms = <<>> THEN [text |-> text, code_blocks |-> code_blocks]
        ELSE [text |-> SubSeq(text, 1, ms[1].start - 1) \o build[1],
              code_blocks |-> code_blocks
                              \o [k \in 1..Len(ms) |-> Group0(text, ms[k])]]

ExtractBlocks(pattern, text, code_blocks) ==
    BlocksOf(FindAll(pattern, text), text, code_blocks)

\* One more extraction from the text and the code blocks of r.
ExtractFrom(pattern, r) == ExtractBlocks(pattern, r.text, r.code_blocks)

TripleTickPattern ==
    <<Chr(BACKTICK), Chr(BACKTICK), Chr(BACKTICK), Lazy(Star(DotAll)),
      Chr(BACKTICK), Chr(BACKTICK), Chr(BACKTICK)>>
DoubleTickPattern ==
    <<Chr(BACKTICK), Chr(BACKTICK), Lazy(Star(DotAll)),
      Chr(BACKTICK), Chr(BACKTICK)>>
SingleTickPattern ==
    <<Chr(BACKTICK), Plus(NotCls({BACKTICK, NEWLINE})), Chr(BACKTICK)>>

\* An identification that masks nothing.
identify_no_code_ticks(text, keep_markdown_code_blocks) ==
    [text |-> text, code_blocks |-> <<>>]

identify_markdown_code_ticks(text, keep_markdown_code_blocks) ==
    IF ~keep_markdown_code_blocks THEN [text |-> text, code_blocks |-> <<>>]
    ELSE ExtractFrom(SingleTickPattern,
             ExtractFrom(DoubleTickPattern,
                 ExtractBlocks(TripleTickPattern, text, <<>>)))

RECURSIVE PlaceBlocksFrom(_, _, _)
PlaceBlocksFrom(result, code_blocks, i) ==
    IF i > Len(code_blocks) THEN result
    ELSE PlaceBlocksFrom(
             ReplaceAll(result, MarkdownPlaceholder(i - 1), code_blocks[i]),
             code_blocks, i + 1)

place_markdown_code_ticks(text, code_blocks, keep_markdown_code_blocks) ==
    IF ~keep_markdown_code_blocks THEN text
    ELSE PlaceBlocksFrom(text, code_blocks, 1)

-----------------------------------------------------------------------------
(* Double quotes: src/src/pytypopo/modules/punctuation/double_quotes.py    *)

STRAIGHT_DOUBLE_QUOTE == "<dq>"
STRAIGHT_SINGLE_QUOTE == "<sq>"
DOUBLE_PRIME == "<dprime>"
SINGLE_PRIME == "<prime>"
ACUTE_ACCENT == "<acute>"

\* The alternatives of DOUBLE_QUOTE_ADEPTS, in the order of the pattern.
DOUBLE_QUOTE_ADEPTS ==
    << <<Chr(STRAIGHT_DOUBLE_QUOTE)>>, <<Chr(LEFT_DOUBLE_QUOTE)>>,
       <<Chr(RIGHT_DOUBLE_QUOTE)>>, <<Chr(DOUBLE_LOW_9_QUOTE)>>,
       <<Chr(LEFT_GUILLEMET)>>, <<Chr(RIGHT_GUILLEMET)>>, <<Chr(DOUBLE_PRIME)>>,
       <<Rep(Chr(","), 2, -1)>>, <<Rep(Chr(SINGLE_LOW_9_QUOTE), 2, -1)>>,
       <<Rep(Cls({STRAIGHT_SINGLE_QUOTE, LEFT_SINGLE_QUOTE, RIGHT_SINGLE_QUOTE,
                  LEFT_SINGLE_GUILLEMET, RIGHT_SINGLE_GUILLEMET, SINGLE_PRIME,
                  ACUTE_ACCENT, BACKTICK}), 2, -1)>> >>

\* "{{typopo__" name "}}", a marker that a rule leaves for a later rule
Tag(name) == <<"{", "{", "t", "y", "p", "o", "p", "o", "_", "_">> \o name \o <<"}", "}">>
DOUBLE_PRIME_TAG == Tag(<<"d", "o", "u", "b", "l", "e", "-", "p", "r", "i", "m", "e">>)
LDQ_TAG == Tag(<<"l", "d", "q">>)
RDQ_TAG == Tag(<<"r", "d", "q">>)
LDQ_UNPAIRED_TAG == Tag(<<"l", "d", "q", "-", "-", "u", "n", "p", "a", "i", "r", "e", "d">>)
RDQ_UNPAIRED_TAG == Tag(<<"r", "d", "q", "-", "-", "u", "n", "p", "a", "i", "r", "e", "d">>)

remove_extra_punctuation_before_quotes(text) ==
    RegexSub(<<Grp(1, NotCls(ROMAN_NUMERALS)), Grp(2, Cls(SENTENCE_PUNCTUATION)),
               Grp(3, Cls(SENTENCE_PAUSE_PUNCTUATION)), Alt(4, DOUBLE_QUOTE_ADEPTS)>>,
             <<Ref(1), Ref(2), Ref(4)>>, text)

remove_extra_punctuation_after_quotes(text) ==
    RegexSub(<<Grp(1, NotCls(ROMAN_NUMERALS)), Grp(2, Cls(SENTENCE_PUNCTUATION)),
               Alt(3, DOUBLE_QUOTE_ADEPTS), Grp(4, Cls(SENTENCE_PUNCTUATION))>>,
             <<Ref(1), Ref(2), Ref(3)>>, text)

\* An identification that takes no quote for a double prime.
identify_no_double_primes(text) == text

identify_double_primes(text) ==
    RegexSub(<<Alt(1, << <<WordB, Rep(Cls(Digits), 1, 3)>> >>),
                   Grp(2, Opt(Cls(SPACES))), Alt(3, DOUBLE_QUOTE_ADEPTS)>>,
                 <<Ref(1), Ref(2), Lit(DOUBLE_PRIME_TAG)>>, (RegexSub(<<Alt(1, << <<NotCls(Digits)>>, <<Bol(FALSE)>> >>),
                         Alt(2, DOUBLE_QUOTE_ADEPTS), Grp(3, Lazy(Plus(Dot))),
                         Grp(4, Plus(Cls(Digits))), Alt(5, DOUBLE_QUOTE_ADEPTS),
                         Grp(6, Cls(TERMINAL_PUNCTUATION \cup {ELLIPSIS}))>>,
                       <<Ref(1), Ref(2), Ref(3), Ref(4), Ref(6), Ref(5)>>, text)))

identify_double_quote_pairs(text) ==
    RegexSub(<<Alt(1, DOUBLE_QUOTE_ADEPTS), Grp(2, Lazy(Star(Dot))),
                   Alt(3, DOUBLE_QUOTE_ADEPTS)>>,
                 <<Lit(LDQ_TAG), Ref(2), Lit(RDQ_TAG)>>, (RegexSub(<<Alt(1, DOUBLE_QUOTE_ADEPTS), Grp(2, Plus(Cls(Digits)))>>
                       \o <<Alt(3, <<LitPat(DOUBLE_PRIME_TAG)>>)>>,
                       <<Lit(LDQ_TAG), Ref(2), Lit(RDQ_TAG)>>, text)))

identify_unpaired_left_double_quote(text) ==
    RegexSub(<<Alt(1, DOUBLE_QUOTE_ADEPTS), Grp(2, Cls(Digits \cup ALL_CHARS))>>,
             <<Lit(LDQ_UNPAIRED_TAG), Ref(2)>>, text)

identify_unpaired_right_double_quote(text) ==
    RegexSub(<<Grp(1, Cls(ALL_CHARS \cup SENTENCE_PUNCTUATION \cup {ELLIPSIS})),
               Alt(2, DOUBLE_QUOTE_ADEPTS)>>,
             <<Ref(1), Lit(RDQ_UNPAIRED_TAG)>>, text)

remove_unidentified_double_quote(text) ==
    RegexSub(<<Grp(1, Cls(SPACES)), Alt(2, DOUBLE_QUOTE_ADEPTS), Grp(3, Cls(SPACES))>>,
             <<Ref(1)>>, text)

replace_double_prime_with_double_quote(text) ==
    RegexSub(<<Alt(1, <<LitPat(DOUBLE_PRIME_TAG)>>), Grp(2, Lazy(Star(Dot))),
                   Alt(3, <<LitPat(RDQ_UNPAIRED_TAG)>>)>>,
                 <<Lit(LDQ_TAG), Ref(2), Lit(RDQ_TAG)>>, (RegexSub(<<Alt(1, <<LitPat(LDQ_UNPAIRED_TAG)>>), Grp(2, Lazy(Star(Dot))),
                         Alt(3, <<LitPat(DOUBLE_PRIME_TAG)>>)>>,
                       <<Lit(LDQ_TAG), Ref(2), Lit(RDQ_TAG)>>, text)))

\* The quotes of en-us placed whatever the locale is.
place_english_double_quotes(text, loc) ==
    RegexSub(<<Alt(1, <<LitPat(RDQ_TAG), LitPat(RDQ_UNPAIRED_TAG)>>)>>,
             <<Lit(<<RIGHT_DOUBLE_QUOTE>>)>>,
             RegexSub(<<Alt(1, <<LitPat(LDQ_TAG), LitPat(LDQ_UNPAIRED_TAG)>>)>>,
                      <<Lit(<<LEFT_DOUBLE_QUOTE>>)>>,
                      ReplaceAll(text, DOUBLE_PRIME_TAG, <<DOUBLE_PRIME>>)))

place_locale_double_quotes(text, loc) ==
    RegexSub(<<Alt(1, <<LitPat(RDQ_TAG), LitPat(RDQ_UNPAIRED_TAG)>>)>>,
                 <<Lit(<<loc.double_quote_close>>)>>, (RegexSub(<<Alt(1, <<LitPat(LDQ_TAG), LitPat(LDQ_UNPAIRED_TAG)>>)>>,
                       <<Lit(<<loc.double_quote_open>>)>>, (ReplaceAll(text, DOUBLE_PRIME_TAG, <<DOUBLE_PRIME>>)))))

remove_extra_spaces_around_quotes(text, loc) ==
    RegexSub(<<Grp(1, Cls(SPACES)), Grp(2, Chr(DOUBLE_PRIME))>>, <<Ref(2)>>, (RegexSub(<<Grp(1, Cls(SPACES)), Grp(2, Chr(loc.double_quote_close))>>,
                       <<Ref(2)>>, (RegexSub(<<Grp(1, Chr(loc.double_quote_open)), Grp(2, Cls(SPACES))>>,
                       <<Ref(1)>>, text)))))

add_space_before_left_double_quote(text, loc) ==
    add_nbsp_after_preposition(
        RegexSub(<<Grp(1, Cls(SENTENCE_PUNCTUATION \cup ALL_CHARS)),
                   Grp(2, Chr(loc.double_quote_open))>>,
                 <<Ref(1), Lit(Sp), Ref(2)>>, text),
        loc)

add_space_after_right_double_quote(text, loc) ==
    RegexSub(<<Grp(1, Chr(loc.double_quote_close)), Grp(2, Cls(ALL_CHARS))>>,
             <<Ref(1), Lit(Sp), Ref(2)>>, text)

swap_quotes_and_terminal_punctuation(text, loc) ==
    \* pattern5: a quoted sentence after a quoted sentence
    LET left_quote == Chr(loc.double_quote_open)
        right_quote == Chr(loc.double_quote_close)
        not_right == NotCls({loc.double_quote_close})
        terminal == Cls(TERMINAL_PUNCTUATION \cup {ELLIPSIS})
    IN  RegexSub(<<Alt(1, << <<Cls(SENTENCE_PUNCTUATION), right_quote, Cls(SPACES),
                               left_quote, Lazy(Plus(not_right)),
                               NotCls(ROMAN_NUMERALS)>> >>),
                   Grp(2, right_quote), Grp(3, terminal),
                   Alt(4, << <<NotWordB>> >>)>>,
                 <<Ref(1), Ref(3), Ref(2), Ref(4)>>, (
        \* pattern4: a quoted sentence after a sentence
        RegexSub(<<Alt(1, << <<Cls(SENTENCE_PUNCTUATION), Cls(SPACES),
                                     left_quote, Lazy(Plus(not_right)),
                                     NotCls(ROMAN_NUMERALS)>> >>),
                         Grp(2, right_quote), Grp(3, terminal),
                         Alt(4, << <<NotWordB>> >>)>>,
                       <<Ref(1), Ref(3), Ref(2), Ref(4)>>, (
        \* pattern3: a quoted sentence at the beginning of a line
        RegexSub(<<Alt(1, << <<Bol(TRUE), left_quote, Lazy(Plus(not_right)),
                                     NotCls(ROMAN_NUMERALS)>> >>),
                         Grp(2, right_quote), Grp(3, terminal),
                         Alt(4, << <<NotWordB>> >>)>>,
                       <<Ref(1), Ref(3), Ref(2), Ref(4)>>, (
        \* pattern2: a quoted part in the middle of a sentence
        RegexSub(<<Grp(1, NotCls(SENTENCE_PUNCTUATION)), Grp(2, Cls(SPACES)),
                         Grp(3, left_quote), Grp(4, Lazy(Plus(Dot))),
                         Grp(5, NotCls(ROMAN_NUMERALS)), Grp(6, right_quote),
                         Grp(7, terminal), Grp(8, Cls(SPACES)),
                         Grp(9, Cls(LOWERCASE_CHARS))>>,
                       <<Ref(1), Ref(2), Ref(3), Ref(4), Ref(5), Ref(7), Ref(6),
                         Ref(8), Ref(9)>>,
                       (
        \* pattern1: a quoted part at the end of a sentence
        RegexSub(<<Grp(1, NotCls(SENTENCE_PUNCTUATION)), Grp(2, Cls(SPACES)),
                         Grp(3, left_quote), Grp(4, Lazy(Plus(not_right))),
                         Grp(5, NotCls(ROMAN_NUMERALS \cup CLOSING_BRACKETS)),
                         Grp(6, terminal), Grp(7, right_quote)>>,
                       <<Ref(1), Ref(2), Ref(3), Ref(4), Ref(5), Ref(7), Ref(6)>>,
                       text)))))))))

\* The rule left out: the introduction of direct speech stays as it is.
keep_direct_speech_intro(text, loc) == text

fix_direct_speech_intro(text, loc) ==
    LET direct_speech_intro == IF loc.locale_id = EN_US THEN <<",">> ELSE <<":">>
        direct_speech_intro_adepts == Cls({",", ":", ";"})
        dashes == Cls({HYPHEN, EN_DASH, EM_DASH})
        quoted(n) == Alt(n, << <<Chr(loc.double_quote_open), Lazy(Plus(Dot)),
                                 Chr(loc.double_quote_close)>> >>)
    IN  RegexSub(<<Grp(1, Cls(TERMINAL_PUNCTUATION \cup {ELLIPSIS})),
                   Plus(Cls(SPACES)), dashes, Star(Cls(SPACES)), quoted(2)>>,
                 <<Ref(1), Lit(Sp), Ref(2)>>, (RegexSub(<<Bol(FALSE), Star(Cls(SPACES)), dashes, Star(Cls(SPACES)),
                         quoted(1)>>,
                       <<Ref(1)>>, (RegexSub(<<quoted(1), Star(Cls(SPACES)), dashes, Star(Cls(SPACES)),
                         Grp(2, Cls(ALL_CHARS))>>,
                       <<Ref(1), Lit(Sp), Ref(2)>>, (RegexSub(<<Grp(1, Cls(ALL_CHARS)), direct_speech_intro_adepts,
                         Star(Cls(SPACES)), quoted(2)>>,
                       <<Ref(1), Lit(direct_speech_intro), Lit(Sp), Ref(2)>>, (RegexSub(<<Grp(1, Cls(ALL_CHARS)), Opt(direct_speech_intro_adepts),
                         Star(Cls(SPACES)), dashes, Star(Cls(SPACES)), quoted(2)>>,
                       <<Ref(1), Lit(direct_speech_intro), Lit(Sp), Ref(2)>>, text)))))))))

\* The rules in the order of the stage.  The markdown code spans, masked
\* before the first rule, are put back after rule 9.
\* The k-th rule of the body of fix_double_quotes_and_primes.
double_quotes_rule(k, t, loc, code_blocks, keep_markdown_code_blocks) ==
    CASE k = 1 -> remove_extra_punctuation_before_quotes(t)
      [] k = 2 -> remove_extra_punctuation_after_quotes(t)
      [] k = 3 -> identify_double_primes(t)
      [] k = 4 -> identify_double_quote_pairs(t)
      [] k = 5 -> identify_unpaired_left_double_quote(t)
      [] k = 6 -> identify_unpaired_right_double_quote(t)
      [] k = 7 -> remove_unidentified_double_quote(t)
      [] k = 8 -> replace_double_prime_with_double_quote(t)
      [] k = 9 -> place_locale_double_quotes(t, loc)
      [] k = 10 -> place_markdown_code_ticks(t, code_blocks,
                                             keep_markdown_code_blocks)
      [] k = 11 -> remove_extra_spaces_around_quotes(t, loc)
      [] k = 12 -> add_space_before_left_double_quote(t, loc)
      [] k = 13 -> add_space_after_right_double_quote(t, loc)
      [] k = 14 -> fix_direct_speech_intro(t, loc)
      [] k = 15 -> swap_quotes_and_terminal_punctuation(t, loc)

\* The rules lo..hi, one after the other.
RECURSIVE double_quotes_rules(_, _, _, _, _, _)
double_quotes_rules(lo, hi, t, loc, code_blocks, keep_markdown_code_blocks) ==
    IF lo = hi
    THEN double_quotes_rule(lo, t, loc, code_blocks, keep_markdown_code_blocks)
    ELSE LET mid == (lo + hi) \div 2
         IN  CHOOSE r \in {double_quotes_rules(mid + 1, hi, half, loc, code_blocks,
                                               keep_markdown_code_blocks)
                           : half \in {double_quotes_rules(lo, mid, t, loc, code_blocks,
                                                           keep_markdown_code_blocks)}}
                    : TRUE

\* The rules on the text md.text that identify_markdown_code_ticks gave.
double_quotes_after_identification(md, loc, keep_markdown_code_blocks) ==
    double_quotes_rules(1, 15, md.text, loc, md.code_blocks,
                        keep_markdown_code_blocks)

fix_double_quotes_and_primes(text, loc, keep_markdown_code_blocks) ==
    double_quotes_after_identification(
        identify_markdown_code_ticks(text, keep_markdown_code_blocks),
        loc, keep_markdown_code_blocks)

-----------------------------------------------------------------------------
(* Single quotes: src/src/pytypopo/modules/punctuation/single_quotes.py    *)

HIGH_REVERSED_9_QUOTE == "<hrquo>"

\* SINGLE_QUOTE_ADEPTS: every alternative is one character
SINGLE_QUOTE_ADEPTS ==
    {SINGLE_LOW_9_QUOTE, STRAIGHT_SINGLE_QUOTE, LEFT_SINGLE_QUOTE,
     RIGHT_SINGLE_QUOTE, MODIFIER_APOSTROPHE, HIGH_REVERSED_9_QUOTE,
     ACUTE_ACCENT, BACKTICK, SINGLE_PRIME, LEFT_SINGLE_GUILLEMET,
     RIGHT_SINGLE_GUILLEMET}

APOSTROPHE_TAG == Tag(<<"a", "p", "o", "s", "t", "r", "o", "p", "h", "e">>)
SINGLE_PRIME_TAG == Tag(<<"s", "i", "n", "g", "l", "e", "-", "p", "r", "i", "m", "e">>)
LSQ_TAG == Tag(<<"l", "s", "q">>)
RSQ_TAG == Tag(<<"r", "s", "q">>)
LSQ_UNPAIRED_TAG == Tag(<<"l", "s", "q", "-", "-", "u", "n", "p", "a", "i", "r", "e", "d">>)
RSQ_UNPAIRED_TAG == Tag(<<"r", "s", "q", "-", "-", "u", "n", "p", "a", "i", "r", "e", "d">>)

common_contractions ==
    << <<<<"d", "e", "a", "d">>, <<"b", "u", "r", "i", "e", "d">>>>, <<<<"d", "r", "i", "l", "l">>, <<"b", "a", "s", "s">>>>, <<<<"d", "r", "u", "m">>, <<"b", "a", "s", "s">>>>,
       <<<<"r", "o", "c", "k">>, <<"r", "o", "l", "l">>>>, <<<<"p", "i", "c", "k">>, <<"m", "i", "x">>>>, <<<<"f", "i", "s", "h">>, <<"c", "h", "i", "p", "s">>>>,
       <<<<"s", "a", "l", "t">>, <<"s", "h", "a", "k", "e">>>>, <<<<"m", "a", "c">>, <<"c", "h", "e", "e", "s", "e">>>>, <<<<"p", "o", "r", "k">>, <<"b", "e", "a", "n", "s">>>>,
       <<<<"d", "r", "a", "g">>, <<"d", "r", "o", "p">>>>, <<<<"r", "a", "k", "e">>, <<"s", "c", "r", "a", "p", "e">>>>, <<<<"h", "o", "o", "k">>, <<"k", "i", "l", "l">>>> >>

\* The re.sub for the k-th pair of words of the list.
contracted_and_substitution(k, t) ==
    RegexSub(<<Grp(1, StrI(common_contractions[k][1])),
               Grp(2, Opt(Cls(SPACES))), Grp(3, Cls(SINGLE_QUOTE_ADEPTS)),
               Grp(4, StrI(<<"n">>)), Grp(5, Cls(SINGLE_QUOTE_ADEPTS)),
               Grp(6, Opt(Cls(SPACES))),
               Grp(7, StrI(common_contractions[k][2]))>>,
             <<Ref(1), Lit(Nb), Lit(APOSTROPHE_TAG), Ref(4),
               Lit(APOSTROPHE_TAG), Lit(Nb), Ref(7)>>, t)

\* The substitutions lo..hi of the loop, one after the other.
RECURSIVE contracted_and_substitutions(_, _, _)
contracted_and_substitutions(lo, hi, t) ==
    IF lo = hi THEN contracted_and_substitution(lo, t)
    ELSE LET mid == (lo + hi) \div 2
         IN  CHOOSE r \in {contracted_and_substitutions(mid + 1, hi, half)
                           : half \in {contracted_and_substitutions(lo, mid, t)}}
                    : TRUE

\* An identification that takes no quote around "n" for an apostrophe.
identify_no_contracted_and(text) == text

\* One re.sub for each pair of words, in the order of the list.
identify_contracted_and(text) ==
    contracted_and_substitutions(1, Len(common_contractions), text)

contracted_words ==
    <<<<"c", "a", "u", "s", "e">>, <<"e", "m">>, <<"m", "i", "d">>, <<"m", "i", "d", "s", "t">>, <<"m", "o", "n", "g", "s", "t">>, <<"p", "r", "e", "n", "t", "i", "c", "e">>, <<"r", "o", "u", "n", "d">>,
      <<"s", "b", "l", "o", "o", "d">>, <<"s", "d", "e", "a", "t", "h">>, <<"s", "f", "o", "o", "t">>, <<"s", "h", "e", "a", "r", "t">>, <<"s", "h", "u", "n">>, <<"s", "l", "i", "d">>, <<"s", "l", "i", "f", "e">>,
      <<"s", "l", "i", "g", "h", "t">>, <<"s", "n", "a", "i", "l", "s">>, <<"s", "t", "r", "e", "w", "t", "h">>, <<"t", "i", "l">>, <<"t", "i", "s">>, <<"t", "w", "a", "s">>, <<"t", "w", "e", "e", "n">>,
      <<"t", "w", "e", "r", "e">>, <<"t", "w", "i", "l", "l">>, <<"t", "w", "i", "x", "t">>, <<"t", "w", "o", "u", "l", "d">>>>

identify_contracted_beginnings(text) ==
    RegexSub(<<Grp(1, Cls(SINGLE_QUOTE_ADEPTS)),
               Alt(2, [k \in 1..Len(contracted_words) |-> <<StrI(contracted_words[k])>>])>>,
             <<Lit(APOSTROPHE_TAG), Ref(2)>>, text)

identify_contracted_ends(text) ==
    RegexSub(<<Alt(1, << <<NotWordB, StrI(<<"i", "n">>)>> >>), Grp(2, Cls(SINGLE_QUOTE_ADEPTS))>>,
             <<Ref(1), Lit(APOSTROPHE_TAG)>>, text)

\* ({SINGLE_QUOTE_ADEPTS})+ : the template does not use the group
identify_in_word_contractions(text) ==
    RegexSub(<<Grp(1, Cls(Digits \cup ALL_CHARS)), Plus(Cls(SINGLE_QUOTE_ADEPTS)),
               Grp(3, Cls(ALL_CHARS))>>,
             <<Ref(1), Lit(APOSTROPHE_TAG), Ref(3)>>, text)

identify_contracted_years(text) ==
    RegexSub(<<Alt(1, << <<NotCls(Digits)>>, <<Cls(UPPERCASE_CHARS), Cls(Digits)>> >>),
               Grp(2, Cls(SPACES)), Grp(3, Cls(SINGLE_QUOTE_ADEPTS)),
               Grp(4, Rep(Cls(Digits), 2, 2))>>,
             <<Ref(1), Ref(2), Lit(APOSTROPHE_TAG), Ref(4)>>, text)

identify_single_prime_as_feet(text) ==
    RegexSub(<<Grp(1, Cls(Digits)), Grp(2, Opt(Cls(SPACES))),
               Grp(3, Cls({STRAIGHT_SINGLE_QUOTE, LEFT_SINGLE_QUOTE, RIGHT_SINGLE_QUOTE,
                           HIGH_REVERSED_9_QUOTE, SINGLE_PRIME}))>>,
             <<Ref(1), Ref(2), Lit(SINGLE_PRIME_TAG)>>, text)

identify_unpaired_left_single_quote(text) ==
    RegexSub(<<Alt(1, << <<Bol(FALSE)>>, <<Cls(SPACES \cup {EM_DASH, EN_DASH})>> >>),
               Grp(2, Cls(SINGLE_QUOTE_ADEPTS \cup {","})),
               Grp(3, Cls(ALL_CHARS \cup {ELLIPSIS}))>>,
             <<Ref(1), Lit(LSQ_UNPAIRED_TAG), Ref(3)>>, text)

identify_unpaired_right_single_quote(text) ==
    RegexSub(<<Grp(1, Cls(ALL_CHARS)),
               Grp(2, Opt(Cls(SENTENCE_PUNCTUATION \cup {ELLIPSIS}))),
               Grp(3, Cls(SINGLE_QUOTE_ADEPTS)),
               Grp(4, Opt(Cls({SPACE} \cup SENTENCE_PUNCTUATION)))>>,
             <<Ref(1), Ref(2), Lit(RSQ_UNPAIRED_TAG), Ref(4)>>, text)

identify_single_quote_pairs(text) ==
    RegexSub(<<Grp(1, Str(LSQ_UNPAIRED_TAG)), Grp(2, Star(Dot)),
               Grp(3, Str(RSQ_UNPAIRED_TAG))>>,
             <<Lit(LSQ_TAG), Ref(2), Lit(RSQ_TAG)>>, text)

\* process_inner works on the text between two double quotes.
identify_single_quotes_within_double_quotes(text) ==
    LET double_quote_adepts ==
            Cls({STRAIGHT_DOUBLE_QUOTE, LEFT_DOUBLE_QUOTE, RIGHT_DOUBLE_QUOTE,
                 DOUBLE_LOW_9_QUOTE, LEFT_GUILLEMET, RIGHT_GUILLEMET})
    IN  RegexSubFn(<<Grp(1, double_quote_adepts), Grp(2, Lazy(Star(Dot))),
                     Grp(3, double_quote_adepts)>>,
                   text,
                   LAMBDA t, m :
                       Group(t, m, 1)
                       \o identify_single_quote_pairs(
                              identify_unpaired_right_single_quote(
                                  identify_unpaired_left_single_quote(Group(t, m, 2))))
                       \o Group(t, m, 3))

identify_single_quote_pair_around_single_word(text) ==
    RegexSub(<<Alt(1, << <<NotWordB>> >>), Grp(2, Cls(SINGLE_QUOTE_ADEPTS)),
               Grp(3, Plus(Cls(ALL_CHARS))), Grp(4, Cls(SINGLE_QUOTE_ADEPTS)),
               Alt(5, << <<NotWordB>> >>)>>,
             <<Ref(1), Lit(LSQ_TAG), Ref(3), Lit(RSQ_TAG), Ref(5)>>, text)

identify_residual_apostrophes(text) ==
    RegexSub(<<Grp(1, Cls(SINGLE_QUOTE_ADEPTS))>>, <<Lit(APOSTROPHE_TAG)>>, text)

replace_single_prime_with_single_quote(text) ==
    RegexSub(<<Grp(1, Str(SINGLE_PRIME_TAG)), Grp(2, Lazy(Star(Dot))),
                   Grp(3, Str(RSQ_UNPAIRED_TAG))>>,
                 <<Lit(LSQ_TAG), Ref(2), Lit(RSQ_TAG)>>, (RegexSub(<<Grp(1, Str(LSQ_UNPAIRED_TAG)), Grp(2, Lazy(Star(Dot))),
                         Grp(3, Str(SINGLE_PRIME_TAG))>>,
                       <<Lit(LSQ_TAG), Ref(2), Lit(RSQ_TAG)>>, text)))

swap_single_quotes_and_terminal_punctuation(text, loc) ==
    \* pattern5: a quoted sentence after a quoted sentence
    LET left_quote == Chr(loc.single_quote_open)
        right_quote == Chr(loc.single_quote_close)
        not_right == NotCls({loc.single_quote_close})
        terminal == Cls(TERMINAL_PUNCTUATION \cup {ELLIPSIS})
    IN  RegexSub(<<Alt(1, << <<Cls(SENTENCE_PUNCTUATION), right_quote, Cls(SPACES),
                               left_quote, Lazy(Plus(not_right)),
                               NotCls(ROMAN_NUMERALS)>> >>),
                   Grp(2, right_quote), Grp(3, terminal),
                   Alt(4, << <<NotWordB>> >>)>>,
                 <<Ref(1), Ref(3), Ref(2), Ref(4)>>, (
        \* pattern4: a quoted sentence after a sentence
        RegexSub(<<Alt(1, << <<Cls(SENTENCE_PUNCTUATION), Cls(SPACES),
                                     left_quote, Lazy(Plus(not_right)),
                                     NotCls(ROMAN_NUMERALS)>> >>),
                         Grp(2, right_quote), Grp(3, terminal),
                         Alt(4, << <<NotWordB>> >>)>>,
                       <<Ref(1), Ref(3), Ref(2), Ref(4)>>, (
        \* pattern3: a quoted sentence at the beginning of a line
        RegexSub(<<Alt(1, << <<Bol(TRUE), left_quote, Lazy(Plus(not_right)),
                                     NotCls(ROMAN_NUMERALS)>> >>),
                         Grp(2, right_quote), Grp(3, terminal),
                         Alt(4, << <<NotWordB>> >>)>>,
                       <<Ref(1), Ref(3), Ref(2), Ref(4)>>, (
        \* pattern2: a quoted part in the middle of a sentence
        RegexSub(<<Grp(1, NotCls(SENTENCE_PUNCTUATION)), Grp(2, Cls(SPACES)),
                         Grp(3, left_quote), Grp(4, Lazy(Plus(Dot))),
                         Grp(5, NotCls(ROMAN_NUMERALS)), Grp(6, right_quote),
                         Grp(7, terminal), Grp(8, Cls(SPACES)),
                         Grp(9, Cls(LOWERCASE_CHARS))>>,
                       <<Ref(1), Ref(2), Ref(3), Ref(4), Ref(5), Ref(7), Ref(6),
                         Ref(8), Ref(9)>>,
                       (
        \* pattern1: a quoted part at the end of a sentence
        RegexSub(<<Grp(1, NotCls(SENTENCE_PUNCTUATION)), Grp(2, Cls(SPACES)),
                         Grp(3, left_quote), Grp(4, Lazy(Plus(not_right))),
                         Grp(5, NotCls(ROMAN_NUMERALS)),
                         Grp(6, terminal), Grp(7, right_quote)>>,
                       <<Ref(1), Ref(2), Ref(3), Ref(4), Ref(5), Ref(7), Ref(6)>>,
                       text)))))))))

remove_extra_space_around_single_prime(text) ==
    RegexSub(<<Grp(1, Cls(SPACES)), Grp(2, Chr(SINGLE_PRIME))>>, <<Ref(2)>>, text)

\* Only the first replacement of place_locale_single_quotes: the tags of the
\* apostrophes and of the quotes stay in the text.
place_single_primes_only(text, loc) ==
    ReplaceAll(text, SINGLE_PRIME_TAG, <<SINGLE_PRIME>>)

place_locale_single_quotes(text, loc) ==
    ReplaceAll((ReplaceAll((ReplaceAll((RegexSub(<<Alt(0, <<LitPat(APOSTROPHE_TAG), LitPat(LSQ_UNPAIRED_TAG),
                                  LitPat(RSQ_UNPAIRED_TAG)>>)>>,
                       <<Lit(<<APOSTROPHE>>)>>, (ReplaceAll(text, SINGLE_PRIME_TAG, <<SINGLE_PRIME>>)))), LSQ_TAG, <<loc.single_quote_open>>)), RSQ_TAG, <<loc.single_quote_close>>)), Tag(<<"m", "a", "r", "k", "d", "o", "w", "n", "_", "s", "y", "n", "t", "a", "x", "_", "h", "i", "g", "h", "l", "i", "g", "h", "t">>),
                   <<BACKTICK, BACKTICK, BACKTICK>>)

\* The statements of the body with the two that identify pairs of single
\* quotes before the five that identify contractions.
PAIRS_FIRST_BODY ==
    <<"identify_single_quote_pair_around_single_word",
      "identify_single_quotes_within_double_quotes",
      "identify_contracted_and", "identify_contracted_beginnings",
      "identify_in_word_contractions", "identify_contracted_years",
      "identify_contracted_ends", "identify_single_prime_as_feet",
      "replace_single_prime_with_single_quote", "identify_residual_apostrophes",
      "place_locale_single_quotes", "place_markdown_code_ticks",
      "swap_single_quotes_and_terminal_punctuation",
      "remove_extra_space_around_single_prime">>

\* The statements of the body of fix_single_quotes_primes_and_apostrophes
\* after identify_markdown_code_ticks, each named by the function it calls,
\* in the order of the body.
SINGLE_QUOTES_BODY ==
    <<"identify_contracted_and", "identify_contracted_beginnings",
      "identify_in_word_contractions", "identify_contracted_years",
      "identify_contracted_ends", "identify_single_prime_as_feet",
      "identify_single_quote_pair_around_single_word",
      "identify_single_quotes_within_double_quotes",
      "replace_single_prime_with_single_quote", "identify_residual_apostrophes",
      "place_locale_single_quotes", "place_markdown_code_ticks",
      "swap_single_quotes_and_terminal_punctuation",
      "remove_extra_space_around_single_prime">>

\* The call of one statement of the body, by the name of its function.
single_quotes_call(name, t, loc, code_blocks, keep_markdown_code_blocks) ==
    CASE name = "identify_contracted_and" -> identify_contracted_and(t)
      [] name = "identify_contracted_beginnings" -> identify_contracted_beginnings(t)
      [] name = "identify_in_word_contractions" -> identify_in_word_contractions(t)
      [] name = "identify_contracted_years" -> identify_contracted_years(t)
      [] name = "identify_contracted_ends" -> identify_contracted_ends(t)
      [] name = "identify_single_prime_as_feet" -> identify_single_prime_as_feet(t)
      [] name = "identify_single_quote_pair_around_single_word" ->
             identify_single_quote_pair_around_single_word(t)
      [] name = "identify_single_quotes_within_double_quotes" ->
             identify_single_quotes_within_double_quotes(t)
      [] name = "replace_single_prime_with_single_quote" ->
             replace_single_prime_with_single_quote(t)
      [] name = "identify_residual_apostrophes" -> identify_residual_apostrophes(t)
      [] name = "place_locale_single_quotes" -> place_locale_single_quotes(t, loc)
      [] name = "place_markdown_code_ticks" ->
             place_markdown_code_ticks(t, code_blocks, keep_markdown_code_blocks)
      [] name = "swap_single_quotes_and_terminal_punctuation" ->
             swap_single_quotes_and_terminal_punctuation(t, loc)
      [] name = "remove_extra_space_around_single_prime" ->
             remove_extra_space_around_single_prime(t)

\* The k-th statement of the body after identify_markdown_code_ticks.  The
\* markdown code spans, masked before the first, are put back by the twelfth.
single_quotes_rule(k, t, loc, code_blocks, keep_markdown_code_blocks) ==
    single_quotes_call(SINGLE_QUOTES_BODY[k], t, loc, code_blocks,
                       keep_markdown_code_blocks)

RECURSIVE single_quotes_rules(_, _, _, _, _, _)
single_quotes_rules(lo, hi, t, loc, code_blocks, keep_markdown_code_blocks) ==
    IF lo = hi
    THEN single_quotes_rule(lo, t, loc, code_blocks, keep_markdown_code_blocks)
    ELSE LET mid == (lo + hi) \div 2
         IN  CHOOSE r \in {single_quotes_rules(mid + 1, hi, half, loc, code_blocks,
                                               keep_markdown_code_blocks)
                           : half \in {single_quotes_rules(lo, mid, t, loc, code_blocks,
                                                           keep_markdown_code_blocks)}}
                    : TRUE

\* The rules on the text md.text that identify_markdown_code_ticks gave.
single_quotes_after_identification(md, loc, keep_markdown_code_blocks) ==
    single_quotes_rules(1, 14, md.text, loc, md.code_blocks,
                        keep_markdown_code_blocks)

fix_single_quotes_primes_and_apostrophes(text, loc, keep_markdown_code_blocks) ==
    single_quotes_after_identification(
        identify_markdown_code_ticks(text, keep_markdown_code_blocks),
        loc, keep_markdown_code_blocks)

-----------------------------------------------------------------------------
(* Symbols: src/src/pytypopo/modules/symbols/                              *)

SECTION_SIGN == "<section>"
PARAGRAPH_SIGN == "<pilcrow>"
NUMERO_SIGN == "<numero>"
PLUS_MINUS == "<plusminus>"
TRADEMARK == "<trademark>"
SERVICE_MARK == "<servicemark>"
NUMBER_SIGN == "#"
SLASH == "/"

\* multiplication_sign.py: WORD_CHARS and LOWERCASE_WORD_CHARS, without the
\* letters beyond "a-z" and "A-Z"
WORD_CHARS == ALL_CHARS
LOWERCASE_WORD_CHARS == LOWERCASE_CHARS

fix_multiplication_spacing(text) ==
    RegexSub(<<Grp(1, Plus(Cls(Digits))), Grp(2, Opt(Cls({SINGLE_PRIME, DOUBLE_PRIME}))),
               Grp(3, Cls({"x", "X", MULTIPLICATION_SIGN})), Grp(4, Plus(Cls(Digits))),
               Grp(5, Opt(Cls({SINGLE_PRIME, DOUBLE_PRIME})))>>,
             <<Ref(1), Ref(2), Lit(<<SPACE, MULTIPLICATION_SIGN, SPACE>>), Ref(4), Ref(5)>>,
             text)

\* while prev_text != text: the substitution is repeated until the text
\* stays as it is.
RECURSIVE fix_multiplication_between_numbers(_)
fix_multiplication_between_numbers(text) ==
    LET unit(n) == Alt(n, << <<Opt(Cls(SPACES)),
                               Star(Cls(LOWERCASE_WORD_CHARS
                                        \cup {SINGLE_PRIME, DOUBLE_PRIME}))>> >>)
        next == RegexSub(<<Grp(1, Plus(Cls(Digits))), unit(2),
                           Alt(3, << <<Cls(SPACES), Cls({"x", "X"}), Cls(SPACES)>> >>),
                           Grp(4, Plus(Cls(Digits))), unit(5)>>,
                         <<Ref(1), Ref(2), Lit(<<SPACE, MULTIPLICATION_SIGN, SPACE>>),
                           Ref(4), Ref(5)>>,
                         text)
    IN  IF next = text THEN text ELSE fix_multiplication_between_numbers(next)

IsUpper(c) == c \in UPPERCASE_CHARS

RECURSIVE fix_multiplication_between_words(_)
fix_multiplication_between_words(text) ==
    LET next == RegexSubFn(
                    <<Grp(1, Plus(Cls(WORD_CHARS))),
                      Alt(2, << <<Cls(SPACES), Cls({"x", "X"}), Cls(SPACES)>> >>),
                      Grp(3, Plus(Cls(WORD_CHARS)))>>,
                    text,
                    LAMBDA t, m :
                        IF /\ IsUpper(Head(Group(t, m, 1)))
                           /\ IsUpper(Head(Group(t, m, 3)))
                           /\ Group(t, m, 2) = <<SPACE, "X", SPACE>>
                        THEN Group0(t, m)
                        ELSE Group(t, m, 1) \o <<SPACE, MULTIPLICATION_SIGN, SPACE>>
                             \o Group(t, m, 3))
    IN  IF next = text THEN text ELSE fix_multiplication_between_words(next)

fix_multiplication_number_and_word(text) ==
    RegexSubFn(<<Grp(1, Cls(Digits)), Grp(2, Opt(Cls(SPACES))),
                 Grp(3, Cls({"x", "X", MULTIPLICATION_SIGN})), Grp(4, Cls(SPACES)),
                 Grp(5, Plus(Cls(LOWERCASE_WORD_CHARS)))>>,
               text,
               LAMBDA t, m :
                   Group(t, m, 1)
                   \o (IF Group(t, m, 2) # <<>> THEN <<SPACE>> ELSE <<>>)
                   \o <<MULTIPLICATION_SIGN, SPACE>> \o Group(t, m, 5))

fix_multiplication_sign(text) ==
    fix_multiplication_number_and_word((fix_multiplication_between_words((fix_multiplication_between_numbers((fix_multiplication_spacing(text)))))))

\* section_sign.py
fix_spacing_around_symbol(text, symbol, space_after) ==
    RegexSub(<<Grp(1, Plus(Chr(symbol))), Grp(2, Cls(WordChars))>>,
                 <<Ref(1), Lit(space_after), Ref(2)>>, (RegexSub(<<Grp(1, Plus(Chr(symbol))), Plus(Cls(SPACES))>>,
                       <<Ref(1), Lit(space_after)>>, (RegexSub(<<Grp(1, NotCls(Whitespace \cup {"(", "[", "{", symbol})),
                         Grp(2, Plus(Chr(symbol)))>>,
                       <<Ref(1), Lit(Sp), Ref(2)>>, text)))))

fix_section_sign(text) ==
    fix_spacing_around_symbol(
        fix_spacing_around_symbol(text, SECTION_SIGN, <<NARROW_NBSP>>),
        PARAGRAPH_SIGN, <<NARROW_NBSP>>)

\* copyrights.py
replace_copyright(text, letter, symbol) ==
    RegexSub(<<StrI(<<"(", letter, ")">>), Grp(1, Star(Cls(SPACES))),
               Grp(2, Cls(Digits))>>,
             <<Lit(<<symbol>>), Ref(1), Ref(2)>>, text)

fix_copyrights(text, loc) ==
    fix_spacing_around_symbol((replace_copyright((fix_spacing_around_symbol((replace_copyright(text, "c", COPYRIGHT)), COPYRIGHT, loc.space_after_copyright)), "p", SOUND_RECORDING_COPYRIGHT)), SOUND_RECORDING_COPYRIGHT,
                                  loc.space_after_sound_recording_copyright)

\* numero_sign.py
fix_numero_sign(text, loc) ==
    fix_spacing_around_symbol(text, NUMERO_SIGN, loc.space_after_numero_sign)

\* plus_minus.py
fix_plus_minus(text) ==
    RegexSub(<<Alt(0, << <<Chr("+"), Chr("-")>>, <<Chr("-"), Chr("+")>> >>)>>,
             <<Lit(<<PLUS_MINUS>>)>>, text)

\* marks.py
replace_mark(text, mark_pattern, symbol) ==
    RegexSub(<<Alt(1, << <<NotCls(Digits)>>, <<Bol(FALSE)>> >>),
               Grp(2, Star(Cls(SPACES))),
               Alt(3, << <<StrI(<<"(">> \o mark_pattern \o <<")">>)>>,
                         <<Chr(symbol)>> >>)>>,
             <<Ref(1), Lit(<<symbol>>)>>, text)

fix_marks(text) ==
    replace_mark((replace_mark((replace_mark(text, <<"r">>, REGISTERED_TRADEMARK)), <<"t", "m">>, TRADEMARK)), <<"s", "m">>, SERVICE_MARK)

\* exponents.py
METRE_PREFIXES ==
    <<<<"m">>, <<"d", "a", "m">>, <<"h", "m">>, <<"k", "m">>, <<"M", "m">>, <<"G", "m">>, <<"T", "m">>, <<"P", "m">>, <<"E", "m">>, <<"Z", "m">>,
      <<"Y", "m">>, <<"d", "m">>, <<"c", "m">>, <<"m", "m">>, <<MICRO_SIGN, "m">>, <<"n", "m">>, <<"p", "m">>, <<"f", "m">>,
      <<"a", "m">>, <<"z", "m">>, <<"y", "m">>>>

fix_exponent(text, original, replacement) ==
    RegexSub(<<Grp(1, Cls(SPACES \cup {SLASH})),
               Alt(2, [k \in 1..Len(METRE_PREFIXES) |-> <<Str(METRE_PREFIXES[k])>>]),
               Grp(3, Chr(original)), WordB>>,
             <<Ref(1), Ref(2), Lit(<<replacement>>)>>, text)

fix_exponents(text) ==
    fix_exponent(fix_exponent(text, "2", SUPERSCRIPT_TWO), "3", SUPERSCRIPT_THREE)

\* number_sign.py
remove_extra_spaces_after_number_sign(text) ==
    RegexSub(<<Grp(1, Plus(Cls(SPACES))), Grp(2, Chr(NUMBER_SIGN)), Plus(Cls(SPACES)),
               Grp(3, Cls(Digits))>>,
             <<Ref(1), Ref(2), Ref(3)>>, text)

fix_number_sign(text) == remove_extra_spaces_after_number_sign(text)

-----------------------------------------------------------------------------
(* Words: src/src/pytypopo/modules/words/case.py, pub_id.py,               *)
(* abbreviations.py                                                        *)

UpperCase(t) == [k \in 1..Len(t) |-> ToUpper(t[k])]

fix_case(text) ==
    \* pattern2: the case swapped by the caps lock
    RegexSubFn(<<Alt(1, << <<WordB>> >>), NotLookAhead(<<Str(<<"i", "O", "S">>)>>),
                     Grp(2, Cls(LOWERCASE_CHARS)),
                     Grp(3, Rep(Cls(UPPERCASE_CHARS), 2, -1))>>,
                   (
        \* pattern1: two capitals at the beginning of a word
        RegexSubFn(<<Alt(1, << <<NotCls(ALL_CHARS)>>, <<Bol(FALSE)>> >>),
                           Grp(2, Rep(Cls(UPPERCASE_CHARS), 2, 2)),
                           Grp(3, Rep(Cls(LOWERCASE_CHARS), 2, -1))>>,
                         text,
                         LAMBDA t, m :
                             Group(t, m, 1) \o <<Group(t, m, 2)[1]>>
                             \o <<ToLower(Group(t, m, 2)[2])>> \o Group(t, m, 3))),
                   LAMBDA t, m :
                       Group(t, m, 1) \o UpperCase(Group(t, m, 2))
                       \o LowerCase(Group(t, m, 3)))

\* _DASHED_SPACE as group n
DashedSpace(n) ==
    Alt(n, << <<Opt(Cls(SPACES)), Cls({HYPHEN, EN_DASH, EM_DASH}), Opt(Cls(SPACES))>> >>)
\* (X|\d+) under re.IGNORECASE, as group n
LastDigit(n) == Alt(n, << <<Cls({"X", "x"})>>, <<Plus(Cls(Digits))>> >>)

fix_issn(text) ==
    RegexSub(<<Grp(1, StrI(<<"i", "s", "s", "n">>)), Grp(2, Opt(Chr(":"))), Grp(3, Opt(Cls(SPACES))),
               Grp(4, Rep(Cls(Digits), 4, 4)), DashedSpace(5),
               Grp(6, Rep(Cls(Digits), 4, 4))>>,
             <<Lit(<<"I", "S", "S", "N">>), Ref(2), Lit(Nb), Ref(4), Lit(<<"-">>), Ref(6)>>, text)

fix_isbn10(text) ==
    RegexSub(<<Grp(1, StrI(<<"i", "s", "b", "n">>)), Grp(2, Opt(Chr(":"))), Grp(3, Opt(Cls(SPACES))),
               Grp(4, Plus(Cls(Digits))), DashedSpace(5),
               Grp(6, Plus(Cls(Digits))), DashedSpace(7),
               Grp(8, Plus(Cls(Digits))), DashedSpace(9), LastDigit(10)>>,
             <<Lit(<<"I", "S", "B", "N">>), Ref(2), Lit(Nb), Ref(4), Lit(<<"-">>), Ref(6),
               Lit(<<"-">>), Ref(8), Lit(<<"-">>), Ref(10)>>, text)

fix_isbn13(text) ==
    RegexSub(<<Grp(1, StrI(<<"i", "s", "b", "n">>)), Grp(2, Opt(Chr(":"))), Grp(3, Opt(Cls(SPACES))),
               Grp(4, Plus(Cls(Digits))), DashedSpace(5),
               Grp(6, Plus(Cls(Digits))), DashedSpace(7),
               Grp(8, Plus(Cls(Digits))), DashedSpace(9),
               Grp(10, Plus(Cls(Digits))), DashedSpace(11), LastDigit(12)>>,
             <<Lit(<<"I", "S", "B", "N">>), Ref(2), Lit(Nb), Ref(4), Lit(<<"-">>), Ref(6),
               Lit(<<"-">>), Ref(8), Lit(<<"-">>), Ref(10), Lit(<<"-">>), Ref(12)>>,
             text)

fix_isbn_number(text) ==
    RegexSub(<<Grp(1, Plus(Cls(Digits))), DashedSpace(2),
               Grp(3, Plus(Cls(Digits))), DashedSpace(4),
               Grp(5, Plus(Cls(Digits))), DashedSpace(6),
               Grp(7, Plus(Cls(Digits))), DashedSpace(8),
               Alt(9, << <<Chr("X")>>, <<Lazy(Plus(Cls(Digits)))>> >>)>>,
             <<Ref(1), Lit(<<"-">>), Ref(3), Lit(<<"-">>), Ref(5), Lit(<<"-">>),
               Ref(7), Lit(<<"-">>), Ref(9)>>, text)

fix_pub_id(text) ==
    fix_isbn_number(fix_isbn13(fix_isbn10(fix_issn(text))))

\* initial_pattern with groups n and n + 1, full_name_pattern with group n
InitialPattern(n) ==
    <<Alt(n, << <<Cls(UPPERCASE_CHARS), Opt(Cls(ALL_CHARS)), Chr(".")>> >>),
      Grp(n + 1, Opt(Cls(SPACES)))>>
FullNamePattern(n) ==
    <<Alt(n, << <<Rep(Cls(ALL_CHARS), 2, -1), NotCls({"."})>> >>)>>

fix_initials(text, loc) ==
    LET abbr_space == loc.space_after_abbreviation
    IN  RegexSub(InitialPattern(1) \o InitialPattern(3) \o InitialPattern(5)
                 \o FullNamePattern(7),
                 <<Ref(1), Lit(abbr_space), Ref(3), Lit(abbr_space), Ref(5), Lit(Sp),
                   Ref(7)>>, (RegexSub(InitialPattern(1) \o InitialPattern(3) \o FullNamePattern(5),
                       <<Ref(1), Lit(abbr_space), Ref(3), Lit(Sp), Ref(5)>>, (RegexSub(InitialPattern(1) \o FullNamePattern(3),
                       <<Ref(1), Lit(Nb), Ref(3)>>, text)))))

\* MULTI_WORD_ABBREVIATIONS: the lists of the five locales one after another,
\* each abbreviation split into its words and listed once.
MULTI_WORD_ABBREVIATIONS ==
    << <<<<"U">>, <<"S">>>>, <<<<"e">>, <<"g">>>>, <<<<"i">>, <<"e">>>>, <<<<"a">>, <<"m">>>>,
       <<<<"p">>, <<"m">>>>,
       <<<<"b">>, <<"w">>>>, <<<<"d">>, <<"h">>>>, <<<<"d">>, <<"i">>>>, <<<<"e">>, <<"V">>>>,
       <<<<"G", "e", "s">>, <<"m">>, <<"b">>, <<"H">>>>, <<<<"n">>, <<"C", "h", "r">>>>, <<<<"n">>, <<"u">>, <<"Z">>>>,
       <<<<"s">>, <<"a">>>>, <<<<"s">>, <<"o">>>>, <<<<"s">>, <<"u">>>>, <<<<"u">>, <<"a">>, <<"m">>>>,
       <<<<"u">>, <<"a">>>>, <<<<"u">>, <<A_UMLAUT>> >>, <<<<"u">>, <<CAPITAL_A_UMLAUT>> >>,
       <<<<"u">>, <<"d", "g", "l">>>>, <<<<"u">>, <<"U">>>>, <<<<"u">>, <<"z">>>>, <<<<"u">>, <<"z", "w">>>>,
       <<<<"v">>, <<"a">>>>, <<<<"v">>, <<"C", "h", "r">>>>, <<<<"v">>, <<"u">>, <<"Z">>>>, <<<<"z">>, <<"B">>>>,
       <<<<"z">>, <<"T">>>>, <<<<"z">>, <<"Z", "t">>>>,
       <<<<"h", "l">>, <<"m">>>>, <<<<"n">>, <<"l">>>>, <<<<"p">>, <<"n">>, <<"l">>>>,
       <<<<"p", R_CARON>>, <<"n">>, <<"l">>>>,
       <<<<"p", "r">>, <<"n">>, <<"l">>>>, <<<<"s">>, <<"l">>>>, <<<<"t">>, <<C_CARON>> >>,
       <<<<"t">>, <<"j">>>>, <<<<"z", "o", "d", "p">>, <<"r", "e", "d">>>>,
       << <<CYRILLIC_TE>>, <<CYRILLIC_ZE, CYRILLIC_EN>> >> >>

\* SINGLE_WORD_ABBREVIATIONS as sorted(all_abbreviations, key=len,
\* reverse=True) gives them: the longer before the shorter; the
\* abbreviations of one length are taken here in the order of the tables.
SINGLE_WORD_ABBREVIATIONS ==
    <<<<"g", "e", "s", "t">>, <<"n", "a", "p", R_CARON>>, <<"o", "d", "s", "t">>, <<"n", "a", "p", "r">>,
      <<"v", "o", "l">>, <<"B", "h", "f">>, <<"g", "e", "b">>, <<"H", "b", "f">>, <<"S", "t", "k">>, <<"u", "s", "w">>, <<"f", "o", "l">>, <<"p", "a", "r">>,
      <<"s", "t", "r">>, <<"t", "z", "v">>, <<CYRILLIC_ES, CYRILLIC_TE, CYRILLIC_ER>>,
      <<"p", "p">>, <<"n", "o">>, <<"c", "a">>, <<"D", "i">>, <<"D", "o">>, <<"F", "r">>, <<"M", "i">>, <<"M", "o">>, <<"N", "r">>,
      <<"S", "a">>, <<"S", "o">>, <<"S", "t">>, <<"s", "v">>, <<"t", "j">>,
      <<"p">>, <<"S">>, <<"u">>, <<"z">>, <<C_CARON>>, <<"r">>, <<"s">>, <<CYRILLIC_CHE>>,
      <<CYRILLIC_ES>> >>

\* \p{Emoji}, the characters of it that a text of the model can hold
EmojiChars == {"#", "*", COPYRIGHT, REGISTERED_TRADEMARK, TRADEMARK} \cup Digits

\* "(part)(\.)([spaces]?)" for each word of the abbreviation, the groups
\* counted from 2 on
AbbreviationParts(parts) ==
    [j \in 1..(3 * Len(parts)) |->
        LET i == (j - 1) \div 3
        IN  CASE j % 3 = 1 -> Grp(2 + 3 * i, StrI(parts[i + 1]))
              [] j % 3 = 2 -> Grp(3 + 3 * i, Chr("."))
              [] OTHER -> Grp(4 + 3 * i, Opt(Cls(SPACES)))]

\* replacer of make_before_word_replacement (tail = ". ") and of
\* make_after_word_replacement (tail = ".")
AbbreviationReplacement(t, m, count, space, tail) ==
    LET words[i \in 0..(count - 1)] ==
            IF i = count - 1 THEN Group(t, m, 2 + 3 * i) \o tail
            ELSE Group(t, m, 2 + 3 * i) \o <<".">> \o space \o words[i + 1]
    IN  Group(t, m, 1) \o words[0] \o Group(t, m, 2 + 3 * count)

\* One substitution of the two loops of fix_multiple_word_abbreviations:
\* k up to the number of abbreviations is the loop of abbreviations before a
\* word, k above it the loop of abbreviations after a word.
multiple_word_substitution(k, t, loc) ==
    LET abbr_space == loc.space_after_abbreviation
        n == Len(MULTI_WORD_ABBREVIATIONS)
        parts == MULTI_WORD_ABBREVIATIONS[IF k <= n THEN k ELSE k - n]
        preceding_non_latin_boundary ==
            Alt(1, << <<NotCls(ALL_CHARS \cup {EN_DASH, EM_DASH})>>, <<Bol(FALSE)>> >>)
        following_word == Grp(2 + 3 * Len(parts), Cls(ALL_CHARS \cup Digits))
        following_non_latin_boundary ==
            Alt(2 + 3 * Len(parts),
                << <<NotCls(ALL_CHARS \cup Digits \cup EmojiChars
                            \cup {loc.double_quote_open, loc.single_quote_open,
                                  BACKTICK})>>,
                   <<Eol(FALSE)>> >>)
    IN  IF k <= n
        THEN RegexSubFn(<<preceding_non_latin_boundary>> \o AbbreviationParts(parts)
                        \o <<following_word>>,
                        t,
                        LAMBDA tt, m : AbbreviationReplacement(
                                           tt, m, Len(parts), abbr_space, <<".", SPACE>>))
        ELSE RegexSubFn(<<preceding_non_latin_boundary>> \o AbbreviationParts(parts)
                        \o <<following_non_latin_boundary>>,
                        t,
                        LAMBDA tt, m : AbbreviationReplacement(
                                           tt, m, Len(parts), abbr_space, <<".">>))

\* The substitutions lo..hi of the two loops, one after the other.
RECURSIVE multiple_word_substitutions(_, _, _, _)
multiple_word_substitutions(lo, hi, t, loc) ==
    IF lo = hi THEN multiple_word_substitution(lo, t, loc)
    ELSE LET mid == (lo + hi) \div 2
         IN  CHOOSE r \in {multiple_word_substitutions(mid + 1, hi, half, loc)
                           : half \in {multiple_word_substitutions(lo, mid, t, loc)}}
                    : TRUE

fix_multiple_word_abbreviations(text, loc) ==
    multiple_word_substitutions(1, 2 * Len(MULTI_WORD_ABBREVIATIONS), text, loc)

\* One substitution of the two loops of fix_single_word_abbreviations,
\* numbered as in multiple_word_substitution.
single_word_substitution(k, t) ==
    LET n == Len(SINGLE_WORD_ABBREVIATIONS)
        abbr == SINGLE_WORD_ABBREVIATIONS[IF k <= n THEN k ELSE k - n]
    IN  IF k <= n
        THEN RegexSub(<<Alt(1, << <<NotCls(ALL_CHARS \cup {EN_DASH, EM_DASH, NBSP, "."})>>,
                                  <<Bol(FALSE)>> >>),
                        Grp(2, StrI(abbr)), Grp(3, Chr(".")), Grp(4, Opt(Cls(SPACES))),
                        Grp(5, Plus(Cls(ALL_CHARS \cup Digits))),
                        Alt(6, << <<NotCls({"."})>>, <<Eol(FALSE)>> >>)>>,
                      <<Ref(1), Ref(2), Ref(3), Lit(Nb), Ref(5), Ref(6)>>, t)
        ELSE RegexSub(<<Grp(1, Cls(ALL_CHARS \cup Digits)), Grp(2, Cls(SPACES)),
                        Grp(3, StrI(abbr)), Grp(4, Chr(".")), Grp(5, Opt(Cls(SPACES))),
                        Alt(6, << <<NotCls(SPACES \cup ALL_CHARS \cup Digits)>>,
                                  <<Eol(FALSE)>> >>)>>,
                      <<Ref(1), Lit(Nb), Ref(3), Ref(4), Ref(5), Ref(6)>>, t)

RECURSIVE single_word_substitutions(_, _, _)
single_word_substitutions(lo, hi, t) ==
    IF lo = hi THEN single_word_substitution(lo, t)
    ELSE LET mid == (lo + hi) \div 2
         IN  CHOOSE r \in {single_word_substitutions(mid + 1, hi, half)
                           : half \in {single_word_substitutions(lo, mid, t)}}
                    : TRUE

fix_single_word_abbreviations(text) ==
    single_word_substitutions(1, 2 * Len(SINGLE_WORD_ABBREVIATIONS), text)

fix_abbreviations(text, loc) ==
    fix_single_word_abbreviations((fix_multiple_word_abbreviations((fix_initials(text, loc)), loc)))

-----------------------------------------------------------------------------
(* fix_typos: src/src/pytypopo/__init__.py                                 *)

\* "not text" alone: None and the empty text.
IsEmpty(text) == text = None \/ text = <<>>

\* "not text or not text.strip()": None, the empty text and a text of
\* whitespace only
IsBlank(text) ==
    \/ text = None
    \/ \A k \in 1..Len(text) : text[k] \in Whitespace

\* The k-th of the statements of fix_typos that rewrite the text between the
\* extraction of the exceptions and their restoration.
Rewrite(k, text, loc, remove_lines) ==
    CASE k = 1 -> IF remove_lines THEN fix_lines(text) ELSE text
      [] k = 2 -> fix_ellipsis(text, loc)
      [] k = 3 -> fix_spaces(text, loc)
      [] k = 4 -> fix_period(text)
      [] k = 5 -> fix_dash(text, loc)
      [] k = 6 -> fix_double_quotes_and_primes(text, loc, FALSE)
      [] k = 7 -> fix_single_quotes_primes_and_apostrophes(text, loc, TRUE)
      [] k = 8 -> fix_multiplication_sign(text)
      [] k = 9 -> fix_section_sign(text)
      [] k = 10 -> fix_copyrights(text, loc)
      [] k = 11 -> fix_numero_sign(text, loc)
      [] k = 12 -> fix_plus_minus(text)
      [] k = 13 -> fix_marks(text)
      [] k = 14 -> fix_exponents(text)
      [] k = 15 -> fix_number_sign(text)
      [] k = 16 -> fix_case(text)
      [] k = 17 -> fix_pub_id(text)
      [] k = 18 -> fix_abbreviations(text, loc)
      [] k = 19 -> fix_nbsp(text, loc)

\* The statements lo..hi, one after the other.
RECURSIVE Rewrites(_, _, _, _, _)
Rewrites(lo, hi, text, loc, remove_lines) ==
    IF lo = hi THEN Rewrite(lo, text, loc, remove_lines)
    ELSE LET mid == (lo + hi) \div 2
         IN  CHOOSE r \in {Rewrites(mid + 1, hi, half, loc, remove_lines)
                           : half \in {Rewrites(lo, mid, text, loc, remove_lines)}}
                    : TRUE

\* The value a call of fix_typos returns.
fix_typos(text, locale, remove_lines) ==
    IF IsBlank(text) THEN <<>>
    ELSE LET loc == get_locale(locale)
             exception_result == exclude_exceptions(text)
         IN  place_exceptions(
                 Rewrites(1, 19, exception_result.processed_text, loc, remove_lines),
                 exception_result.exceptions)

-----------------------------------------------------------------------------
(* Calls of fix_typos                                                      *)
(*                                                                         *)
(* A call runs the statements of the body of fix_typos one at a time.  The *)
(* caller of test_idempotency.py gives the value a call returns to         *)
(* fix_typos again, with the same locale and remove_lines.                 *)

\* The calls that can be under way at a time.
Calls == {1, 2}

\* No call: the place of a call that is not made.
NoCall == [text |-> None, locale |-> None, remove_lines |-> FALSE, made |-> FALSE]

\* The arguments of a call.
Arguments(text, locale, remove_lines) ==
    [text |-> text, locale |-> locale, remove_lines |-> remove_lines, made |-> TRUE]

\* One frame for the locals of every call.
SharedFrame(c) == 1

\* The frame that holds the locals text, loc and exceptions of call c: each
\* invocation of a Python function has a frame of its own.
Frame(c) == c

\* The statements of the body of fix_typos after "loc = get_locale(locale)",
\* each named by the function it calls, in the order of the body.
STATEMENTS ==
    <<"exclude_exceptions", "fix_lines", "fix_ellipsis", "fix_spaces", "fix_period",
      "fix_dash", "fix_double_quotes", "fix_single_quotes", "fix_multiplication_sign",
      "fix_section_sign", "fix_copyrights", "fix_numero_sign", "fix_plus_minus",
      "fix_marks", "fix_exponents", "fix_number_sign", "fix_case", "fix_pub_id",
      "fix_abbreviations", "fix_nbsp", "place_exceptions">>

\* The statement that follows statement in the sequence order; "return"
\* after the last one.  "if remove_lines:" guards the call of fix_lines.
Following(order, statement, remove_lines) ==
    LET k == CHOOSE k \in 1..Len(order) : order[k] = statement
        n == IF k < Len(order) /\ order[k + 1] = "fix_lines" /\ ~remove_lines
             THEN k + 2 ELSE k + 1
    IN  IF n > Len(order) THEN "return" ELSE order[n]

\* The order of the body with the calls of fix_period and fix_dash exchanged.
NextStatementDashFirst(statement, remove_lines) ==
    Following(<<"exclude_exceptions", "fix_lines", "fix_ellipsis", "fix_spaces",
                "fix_dash", "fix_period", "fix_double_quotes", "fix_single_quotes",
                "fix_multiplication_sign", "fix_section_sign", "fix_copyrights",
                "fix_numero_sign", "fix_plus_minus", "fix_marks", "fix_exponents",
                "fix_number_sign", "fix_case", "fix_pub_id", "fix_abbreviations",
                "fix_nbsp", "place_exceptions">>,
              statement, remove_lines)

\* The statement fix_typos executes after statement.
NextStatement(statement, remove_lines) == Following(STATEMENTS, statement, remove_lines)

VARIABLES
    argument,     \* argument[c]: the arguments call c is made with
    pc,           \* pc[c]: the statement call c executes next
    text,         \* text[f]: the local text of frame f
    loc,          \* loc[f]: the local loc of frame f
    exceptions,   \* exceptions[f]: the local exceptions of frame f
    stages,       \* stages[c]: the statements call c has executed since it was entered
    result,       \* result[c]: the values call c has returned, the first one first
    rewriter      \* the frame of a call of replace_with_overlap_handling on its own

vars == <<argument, pc, text, loc, exceptions, stages, result, rewriter>>

\* No call of replace_with_overlap_handling on its own is made.
NoRewriter == [pc |-> "absent"]

\* The text that the application of fix_typos under way, or the last one
\* finished, was given.
GivenText(c) ==
    LET n == IF pc[c] = "done" THEN Len(result[c]) ELSE Len(result[c]) + 1
    IN  IF n <= 1 THEN argument[c].text ELSE result[c][n - 1]

\* Statement "text = f(text, ...)" of call c: the local text becomes value
\* and the call goes on to the statement that follows.
Assign(c, statement, value) ==
    /\ pc[c] = statement
    /\ text' = [text EXCEPT ![Frame(c)] = value]
    /\ pc' = [pc EXCEPT ![c] = NextStatement(statement, argument[c].remove_lines)]
    /\ stages' = [stages EXCEPT ![c] = Append(@, statement)]
    /\ UNCHANGED <<argument, loc, exceptions, result, rewriter>>

\* fix_typos(text, locale, remove_lines=...) is called: the parameter text
\* is bound to the argument.
Call(c) ==
    /\ pc[c] = "idle"
    /\ text' = [text EXCEPT ![Frame(c)] = argument[c].text]
    /\ pc' = [pc EXCEPT ![c] = "enter"]
    /\ UNCHANGED <<argument, loc, exceptions, stages, result, rewriter>>

\* l.81-82: if not text or not text.strip(): return ""
Enter(c) ==
    /\ pc[c] = "enter"
    /\ IF IsBlank(text[Frame(c)])
       THEN /\ result' = [result EXCEPT ![c] = Append(@, <<>>)]
            /\ pc' = [pc EXCEPT ![c] = "done"]
       ELSE /\ pc' = [pc EXCEPT ![c] = "get_locale"]
            /\ UNCHANGED result
    /\ UNCHANGED <<argument, text, loc, exceptions, stages, rewriter>>

\* l.85: loc = get_locale(locale).  Locale.__init__ looks the normalized id
\* up in LOCALE_CONFIGS; a KeyError there leaves fix_typos.
GetLocale(c) ==
    /\ pc[c] = "get_locale"
    /\ IF RaisesKeyError(normalize_locale_id(argument[c].locale))
       THEN /\ pc' = [pc EXCEPT ![c] = "raised"]
            /\ UNCHANGED loc
       ELSE /\ loc' = [loc EXCEPT ![Frame(c)] = get_locale(argument[c].locale)]
            /\ pc' = [pc EXCEPT ![c] = STATEMENTS[1]]
    /\ UNCHANGED <<argument, text, exceptions, stages, result, rewriter>>

\* l.89-91: exception_result = exclude_exceptions(text) and the two
\* assignments from it
ExcludeExceptions(c) ==
    /\ pc[c] = "exclude_exceptions"
    /\ LET exception_result == exclude_exceptions(text[Frame(c)])
       IN  /\ text' = [text EXCEPT ![Frame(c)] = exception_result.processed_text]
           /\ exceptions' = [exceptions EXCEPT ![Frame(c)] = exception_result.exceptions]
    /\ pc' = [pc EXCEPT ![c] = NextStatement("exclude_exceptions", argument[c].remove_lines)]
    /\ stages' = [stages EXCEPT ![c] = Append(@, "exclude_exceptions")]
    /\ UNCHANGED <<argument, loc, result, rewriter>>

\* l.95-96
FixLines(c) == Assign(c, "fix_lines", fix_lines(text[Frame(c)]))
\* l.100
FixEllipsis(c) == Assign(c, "fix_ellipsis", fix_ellipsis(text[Frame(c)], loc[Frame(c)]))
\* l.103
FixSpaces(c) == Assign(c, "fix_spaces", fix_spaces(text[Frame(c)], loc[Frame(c)]))
\* l.107
FixPeriod(c) == Assign(c, "fix_period", fix_period(text[Frame(c)]))
\* l.108
FixDash(c) == Assign(c, "fix_dash", fix_dash(text[Frame(c)], loc[Frame(c)]))
\* l.109: fix_double_quotes is fix_double_quotes_and_primes, called without
\* keep_markdown_code_blocks, which is False by default
FixDoubleQuotes(c) ==
    Assign(c, "fix_double_quotes",
           fix_double_quotes_and_primes(text[Frame(c)], loc[Frame(c)], FALSE))
\* l.110: fix_single_quotes is fix_single_quotes_primes_and_apostrophes,
\* called without keep_markdown_code_blocks, which is True by default
FixSingleQuotes(c) ==
    Assign(c, "fix_single_quotes",
           fix_single_quotes_primes_and_apostrophes(text[Frame(c)], loc[Frame(c)], TRUE))
\* l.115-122
FixMultiplicationSign(c) ==
    Assign(c, "fix_multiplication_sign", fix_multiplication_sign(text[Frame(c)]))
FixSectionSign(c) == Assign(c, "fix_section_sign", fix_section_sign(text[Frame(c)]))
FixCopyrights(c) ==
    Assign(c, "fix_copyrights", fix_copyrights(text[Frame(c)], loc[Frame(c)]))
FixNumeroSign(c) ==
    Assign(c, "fix_numero_sign", fix_numero_sign(text[Frame(c)], loc[Frame(c)]))
FixPlusMinus(c) == Assign(c, "fix_plus_minus", fix_plus_minus(text[Frame(c)]))
FixMarks(c) == Assign(c, "fix_marks", fix_marks(text[Frame(c)]))
FixExponents(c) == Assign(c, "fix_exponents", fix_exponents(text[Frame(c)]))
FixNumberSign(c) == Assign(c, "fix_number_sign", fix_number_sign(text[Frame(c)]))
\* l.127-129
FixCase(c) == Assign(c, "fix_case", fix_case(text[Frame(c)]))
FixPubId(c) == Assign(c, "fix_pub_id", fix_pub_id(text[Frame(c)]))
FixAbbreviations(c) ==
    Assign(c, "fix_abbreviations", fix_abbreviations(text[Frame(c)], loc[Frame(c)]))
\* l.132
FixNbsp(c) == Assign(c, "fix_nbsp", fix_nbsp(text[Frame(c)], loc[Frame(c)]))
\* l.135
PlaceExceptions(c) ==
    Assign(c, "place_exceptions",
           place_exceptions(text[Frame(c)], exceptions[Frame(c)]))

\* l.137: return text
Return(c) ==
    /\ pc[c] = "return"
    /\ result' = [result EXCEPT ![c] = Append(@, text[Frame(c)])]
    /\ pc' = [pc EXCEPT ![c] = "done"]
    /\ UNCHANGED <<argument, text, loc, exceptions, stages, rewriter>>

-----------------------------------------------------------------------------
(* The texts and the arguments of the calls                                *)

\* The length of the texts, and the number of times a text is given to
\* fix_typos.
MaxLen == 3
MaxApplications == 2

\* The texts of at most n characters of chars.
Texts(chars, n) == UNION {[1..k -> chars] : k \in 0..n}

PlainChars == {"c", ".", SPACE, ELLIPSIS, "-", NEWLINE}
PlainTexts == Texts(PlainChars, MaxLen)

\* Inline markdown code spans.
CodeChars == {"c", ".", SPACE, STRAIGHT_SINGLE_QUOTE}
CodeTexts ==
    {<<BACKTICK>> \o x \o <<BACKTICK>> : x \in Texts(CodeChars, MaxLen) \ {<<>>}}

\* A file name, an email address and a URL, with a character on either side.
AroundChars == {"c", ".", SPACE, "-"}
ExceptionSamples ==
    {<<"c", ".", "p", "y">>, <<".", ".", "@", "c", ".", "c", "c">>,
     <<"c", ".", "c", "c", "/", ".", ".">>}
ExceptionTexts ==
    {p \o e \o s : p \in Texts(AroundChars, MaxLen - 2),
                   e \in ExceptionSamples,
                   s \in Texts(AroundChars, MaxLen - 2)}

\* Locale ids: the supported ones, None, the empty id, an id in capitals
\* and an id of no supported locale.
LocaleIds == SUPPORTED_LOCALES \cup {None, <<>>, <<"C", "S">>, <<"x", "x">>}

\* The texts of spaces, tabs and newlines only, the empty text among them.
BlankChars == {SPACE, TAB, NEWLINE}
BlankTexts == Texts(BlankChars, MaxLen)

Inputs ==
    {Arguments(t, L, TRUE) : t \in PlainTexts \cup CodeTexts \cup ExceptionTexts
                                    \cup BlankTexts,
                             L \in SUPPORTED_LOCALES}
    \cup {Arguments(t, L, r) : t \in Texts(PlainChars, MaxLen - 1) \cup {None},
                               L \in LocaleIds, r \in BOOLEAN}

\* The caller gives the value returned to fix_typos again, with the same
\* locale and remove_lines (test_idempotency.py: fix_typos(first_pass)).
Reapply(c) ==
    /\ pc[c] = "done"
    /\ Len(result[c]) < MaxApplications
    /\ text' = [text EXCEPT ![Frame(c)] = result[c][Len(result[c])]]
    /\ stages' = [stages EXCEPT ![c] = <<>>]
    /\ pc' = [pc EXCEPT ![c] = "enter"]
    /\ UNCHANGED <<argument, loc, exceptions, result, rewriter>>

Next ==
    \E c \in Calls :
        \/ Call(c)
        \/ Enter(c)
        \/ GetLocale(c)
        \/ ExcludeExceptions(c)
        \/ FixLines(c)
        \/ FixEllipsis(c)
        \/ FixSpaces(c)
        \/ FixPeriod(c)
        \/ FixDash(c)
        \/ FixDoubleQuotes(c)
        \/ FixSingleQuotes(c)
        \/ FixMultiplicationSign(c)
        \/ FixSectionSign(c)
        \/ FixCopyrights(c)
        \/ FixNumeroSign(c)
        \/ FixPlusMinus(c)
        \/ FixMarks(c)
        \/ FixExponents(c)
        \/ FixNumberSign(c)
        \/ FixCase(c)
        \/ FixPubId(c)
        \/ FixAbbreviations(c)
        \/ FixNbsp(c)
        \/ PlaceExceptions(c)
        \/ Return(c)
        \/ Reapply(c)

\* The calls a, or NoCall, are about to be made; no frame holds anything yet.
Made(a) ==
    /\ argument = a
    /\ pc = [c \in Calls |-> IF a[c].made THEN "idle" ELSE "absent"]
    /\ text = [f \in Calls |-> <<>>]
    /\ loc = [f \in Calls |-> None]
    /\ exceptions = [f \in Calls |-> <<>>]
    /\ stages = [c \in Calls |-> <<>>]
    /\ result = [c \in Calls |-> <<>>]
    /\ rewriter = NoRewriter

\* One call, with arguments of Inputs.
Init == \E a \in Inputs : Made([c \in Calls |-> IF c = 1 THEN a ELSE NoCall])

Spec == Init /\ [][Next]_vars

-----------------------------------------------------------------------------
(* Properties of the calls of fix_typos                                    *)

\* The value the last application of call c returned.
Returned(c) == result[c][Len(result[c])]

\* Call c has returned from an application on a text that is not blank.
Fixed(c) == pc[c] = "done" /\ ~IsBlank(GivenText(c))

\* C1: for every supported locale, every text and either value of
\* remove_lines, fix_typos applied to what fix_typos returned returns the
\* same text again.
C1_Idempotent ==
    \A c \in Calls :
        (argument[c].made /\ argument[c].locale \in SUPPORTED_LOCALES
            /\ Len(result[c]) >= 2)
        => result[c][2] = result[c][1]

\* C2: every URL, email address and file name that the exception patterns
\* recognise in the text given to fix_typos is part of the text returned,
\* character for character, in every locale.
C2_ExceptionsUnchanged ==
    \A c \in Calls :
        Fixed(c) =>
            LET spans == AcceptedSpans(GivenText(c))
            IN  \A k \in 1..Len(spans) : Contains(Returned(c), spans[k].str)

\* A call has returned a text that differs from the one it was given and
\* still holds the email address "..@c.cc" of the text given, which the
\* period rule would shorten.
C2_Witness ==
    \E c \in Calls :
        /\ Fixed(c)
        /\ Returned(c) # GivenText(c)
        /\ \E k \in 1..Len(AcceptedSpans(GivenText(c))) :
               AcceptedSpans(GivenText(c))[k].str = <<".", ".", "@", "c", ".", "c", "c">>
        /\ Contains(Returned(c), <<".", ".", "@", "c", ".", "c", "c">>)

\* The markdown code spans of a text: fenced, double-backtick and inline, as
\* the patterns of utils/markdown.py find them.
CodeSpans(t) ==
    LET r1 == ExtractBlocks(TripleTickPattern, t, <<>>)
        r2 == ExtractBlocks(DoubleTickPattern, r1.text, r1.code_blocks)
    IN  ExtractBlocks(SingleTickPattern, r2.text, r2.code_blocks).code_blocks

StageOrder(remove_lines) ==
    <<"exclude_exceptions">>
    \o (IF remove_lines THEN <<"fix_lines">> ELSE <<>>)
    \o <<"fix_ellipsis", "fix_spaces", "fix_period", "fix_dash",
         "fix_double_quotes", "fix_single_quotes">>
    \o <<"fix_multiplication_sign", "fix_section_sign", "fix_copyrights",
         "fix_numero_sign", "fix_plus_minus", "fix_marks", "fix_exponents",
         "fix_number_sign">>
    \o <<"fix_case", "fix_pub_id", "fix_abbreviations">>
    \o <<"fix_nbsp", "place_exceptions">>

\* C6: on a text that is not blank fix_typos runs exception extraction,
\* blank-line collapsing (only when remove_lines is true), ellipsis,
\* whitespace, period, dash, double quotes, single quotes, the eight symbol
\* stages, the three word stages, non-breaking spaces and exception
\* restoration, in this order and nothing else: what a call has run so far
\* is a beginning of that sequence, and all of it when the call has returned.
C6_StageOrder ==
    \A c \in Calls :
        argument[c].made =>
            LET order == StageOrder(argument[c].remove_lines)
            IN  /\ Len(stages[c]) <= Len(order)
                /\ stages[c] = SubSeq(order, 1, Len(stages[c]))
                /\ Fixed(c) => stages[c] = order

\* A call with remove_lines false has returned after all the statements but
\* the call of fix_lines.
C6_Witness ==
    \E c \in Calls :
        /\ Fixed(c)
        /\ ~argument[c].remove_lines
        /\ Len(stages[c]) = 20
        /\ stages[c][2] = "fix_ellipsis"

\* C8: fix_typos never raises and returns a text, whatever the text and
\* the locale id it is given.
C8_NeverRaises ==
    \A c \in Calls :
        /\ pc[c] # "raised"
        /\ pc[c] = "done" => Len(result[c]) >= 1

\* A call with the id of no supported locale has returned the text without
\* the space it began with.
C8_Witness ==
    \E c \in Calls :
        /\ pc[c] = "done"
        /\ argument[c].locale = <<"x", "x">>
        /\ argument[c].text = <<SPACE, "c">>
        /\ result[c] = << <<"c">> >>

-----------------------------------------------------------------------------
(* exclude_exceptions and place_exceptions on their own                    *)
(*                                                                         *)
(* Call 1 is the caller of words/test_exceptions.py: it gives a text to    *)
(* exclude_exceptions and the result to place_exceptions, or it gives a    *)
(* text and a list of exceptions to place_exceptions.                      *)

\* The number of parts of a text.
MaxParts == 3

\* The parts of the texts: an email address, a slash, a file name, a space
\* and two placeholders.
LedgerParts ==
    {<<"c", "@", "c", ".", "c", "c">>, <<"/">>, <<"c", ".", "c">>, <<SPACE>>,
     Placeholder(0), Placeholder(1)}

\* The parts one after the other.
RECURSIVE Concat(_)
Concat(parts) == IF parts = <<>> THEN <<>> ELSE Head(parts) \o Concat(Tail(parts))

LedgerTexts == {Concat(parts) : parts \in Texts(LedgerParts, MaxParts)}

\* The lists of exceptions that place_exceptions is given directly.
LedgerLists == Texts({Placeholder(1), <<"c", ".", "c">>}, 2)

\* The text of call 1 goes to exclude_exceptions.
Extract ==
    /\ pc[1] = "extract"
    /\ LET exception_result == exclude_exceptions(text[Frame(1)])
       IN  /\ text' = [text EXCEPT ![Frame(1)] = exception_result.processed_text]
           /\ exceptions' = [exceptions EXCEPT ![Frame(1)] = exception_result.exceptions]
    /\ pc' = [pc EXCEPT ![1] = "restore"]
    /\ UNCHANGED <<argument, loc, stages, result, rewriter>>

\* The text and the exceptions of call 1 go to place_exceptions.
Restore ==
    /\ pc[1] = "restore"
    /\ text' = [text EXCEPT ![Frame(1)] =
                   place_exceptions(text[Frame(1)], exceptions[Frame(1)])]
    /\ pc' = [pc EXCEPT ![1] = "restored"]
    /\ UNCHANGED <<argument, loc, exceptions, stages, result, rewriter>>

LedgerNext == Extract \/ Restore

\* Call 1 is about to extract from a text, or about to restore a text with
\* a list of exceptions; argument[1] is what it began with.
InitLedger ==
    \E t \in LedgerTexts, e \in LedgerLists \cup {None} :
        /\ argument = [c \in Calls |->
                          IF c = 1 THEN [text |-> t, exceptions |-> e, made |-> TRUE]
                          ELSE NoCall]
        /\ pc = [c \in Calls |-> IF c # 1 THEN "absent"
                                 ELSE IF e = None THEN "extract" ELSE "restore"]
        /\ text = [f \in Calls |-> IF f = Frame(1) THEN t ELSE <<>>]
        /\ loc = [f \in Calls |-> None]
        /\ exceptions = [f \in Calls |-> IF f = Frame(1) /\ e # None THEN e ELSE <<>>]
        /\ stages = [c \in Calls |-> <<>>]
        /\ result = [c \in Calls |-> <<>>]
        /\ rewriter = NoRewriter

SpecLedger == InitLedger /\ [][LedgerNext]_vars

\* Call 1 began with exclude_exceptions.
Extracting == argument[1].exceptions = None

\* C3: restoring after extracting gives back the text: place_exceptions of
\* what exclude_exceptions returned is the text exclude_exceptions was
\* given, whichever category matched and however often an exception repeats.
C3_RoundTrip ==
    (Extracting /\ pc[1] = "restored") => text[Frame(1)] = argument[1].text

\* The text with each placeholder of an index below the length of the list
\* replaced by the exception of that index, in one pass from left to right:
\* what is put in is not looked at again.
OrdinalRestore(t, list) ==
    RegexSubFn(<<Alt(1, [i \in 1..Len(list) |-> LitPat(Placeholder(i - 1))])>>, t,
               LAMBDA tt, m :
                   list[CHOOSE i \in 1..Len(list) : Placeholder(i - 1) = Group0(tt, m)])

\* C4: place_exceptions puts the n-th exception in place of placeholder n,
\* each placeholder once, also when an exception reads like a placeholder:
\* what has been restored is not replaced again.
C4_OrdinalRestore ==
    (~Extracting /\ pc[1] = "restored")
        => text[Frame(1)] = OrdinalRestore(argument[1].text, argument[1].exceptions)

\* Python offsets of two spans share a character.
SharesCharacter(a, b) == a.start < b.end /\ b.start < a.end

\* C7 as stated: the accepted spans do not overlap, and of two candidates
\* that share a character the one that starts earlier (the longer one when
\* they start together) is accepted and the other one is dropped.
C7_EarlierCandidateWins ==
    (Extracting /\ pc[1] = "restore") =>
        LET candidates == AllMatches(argument[1].text)
            accepted == AcceptedSpans(argument[1].text)
            Accepted(m) == \E k \in 1..Len(accepted) : accepted[k] = m
        IN  /\ \A i, j \in 1..Len(accepted) :
                   i # j => ~SharesCharacter(accepted[i], accepted[j])
            /\ \A i, j \in 1..Len(candidates) :
                   (SharesCharacter(candidates[i], candidates[j])
                        /\ SortsBefore(candidates[i], candidates[j]))
                   => (Accepted(candidates[i]) /\ ~Accepted(candidates[j]))

\* C7: the accepted spans do not overlap and are the exceptions of the
\* ledger; every candidate is accepted or shares a character with an
\* accepted candidate that does not come after it in the order of start
\* offsets (the longer first among equal starts).
C7_AcceptedSpansDisjoint ==
    (Extracting /\ pc[1] = "restore") =>
        LET candidates == AllMatches(argument[1].text)
            accepted == AcceptedSpans(argument[1].text)
            Accepted(m) == \E k \in 1..Len(accepted) : accepted[k] = m
        IN  /\ \A i, j \in 1..Len(accepted) :
                   i # j => ~SharesCharacter(accepted[i], accepted[j])
            /\ exceptions[Frame(1)] = [k \in 1..Len(accepted) |-> accepted[k].str]
            /\ \A k \in 1..Len(accepted) :
                   \E i \in 1..Len(candidates) : candidates[i] = accepted[k]
            /\ \A i \in 1..Len(candidates) :
                   \/ Accepted(candidates[i])
                   \/ \E k \in 1..Len(accepted) :
                          /\ SharesCharacter(accepted[k], candidates[i])
                          /\ ~SortsBefore(candidates[i], accepted[k])

\* From "c@c.cc/c.c" the email address "c@c.cc" and the file name "c.c" are
\* taken; the URL "c.cc/c.c", which shares characters with both and starts
\* before the file name, is not.
C7_Witness ==
    /\ Extracting
    /\ pc[1] = "restore"
    /\ argument[1].text = <<"c", "@", "c", ".", "c", "c", "/", "c", ".", "c">>
    /\ exceptions[Frame(1)] = << <<"c", "@", "c", ".", "c", "c">>, <<"c", ".", "c">> >>

-----------------------------------------------------------------------------
(* fix_dash on its own                                                     *)
(*                                                                         *)
(* Call 1 is at the statement "text = fix_dash(text, loc)" with a text of  *)
(* digits and hyphens, as the caller of punctuation/test_dash.py gives it  *)
(* to fix_dash.                                                            *)

\* The length of the texts of digits and hyphens.
MaxChain == 7

ChainChars == {"1", "-"}

InitDash ==
    \E t \in Texts(ChainChars, MaxChain), L \in SUPPORTED_LOCALES :
        /\ argument = [c \in Calls |-> IF c = 1 THEN Arguments(t, L, TRUE) ELSE NoCall]
        /\ pc = [c \in Calls |-> IF c = 1 THEN "fix_dash" ELSE "absent"]
        /\ text = [f \in Calls |-> IF f = Frame(1) THEN t ELSE <<>>]
        /\ loc = [f \in Calls |-> IF f = Frame(1) THEN get_locale(L) ELSE None]
        /\ exceptions = [f \in Calls |-> <<>>]
        /\ stages = [c \in Calls |-> <<>>]
        /\ result = [c \in Calls |-> <<>>]
        /\ rewriter = NoRewriter

DashNext == FixDash(1)

SpecDash == InitDash /\ [][DashNext]_vars

\* Integers joined by single hyphens, two integers or more and nothing else.
IsChain(t) ==
    /\ \E k \in 1..Len(t) : t[k] = "-"
    /\ \A k \in 1..Len(t) : t[k] \in Digits \cup {"-"}
    /\ \A k \in 1..Len(t) :
           t[k] = "-" => (k > 1 /\ k < Len(t) /\ t[k - 1] \in Digits /\ t[k + 1] \in Digits)

\* C10: in every locale fix_dash turns every hyphen of a chain of integers
\* joined by hyphens into an en dash and leaves the digits as they are,
\* however long the chain is.
C10_ChainOfIntegers ==
    (pc[1] = "fix_double_quotes" /\ IsChain(argument[1].text)) =>
        text[Frame(1)] = [k \in 1..Len(argument[1].text) |->
                             IF argument[1].text[k] = "-" THEN EN_DASH
                             ELSE argument[1].text[k]]

\* fix_dash has rewritten "1-1-1-1": the hyphen in the middle lies between
\* two digits that the matches to its left and right have taken.
C10_Witness ==
    /\ pc[1] = "fix_double_quotes"
    /\ argument[1].text = <<"1", "-", "1", "-", "1", "-", "1">>
    /\ text[Frame(1)] = <<"1", EN_DASH, "1", EN_DASH, "1", EN_DASH, "1">>

-----------------------------------------------------------------------------
(* Two calls of fix_typos at a time                                        *)

\* The arguments of the calls that run side by side.
CallInputs ==
    {Arguments(<<"c", SPACE, ".">>, EN_US, TRUE),
     Arguments(<<SPACE, "c", ".", "p", "y">>, CS, TRUE),
     Arguments(<<ELLIPSIS, SPACE, ".">>, DE_DE, FALSE)}

\* Two calls, their statements interleaved in every way.
InitCalls == \E a, b \in CallInputs : Made([c \in Calls |-> IF c = 1 THEN a ELSE b])

SpecCalls == InitCalls /\ [][Next]_vars

\* What fix_typos, applied n times, returns for the arguments a when nothing
\* else runs.
RECURSIVE Applied(_, _)
Applied(n, a) ==
    fix_typos(IF n = 1 THEN a.text ELSE Applied(n - 1, a), a.locale, a.remove_lines)

\* C9: the calls share no state: what a call returns depends only on its
\* text, locale and remove_lines, so calls whose statements are interleaved
\* return what the same calls return when each runs alone: when both have
\* returned, every value returned is the one fix_typos gives on its own.
C9_CallsIndependent ==
    (\A c \in Calls : pc[c] = "done") =>
        \A c \in Calls :
            \A n \in 1..Len(result[c]) : result[c][n] = Applied(n, argument[c])

\* Two calls with different arguments are both under way, each past the
\* extraction of its exceptions, and the first one has returned once.
C9_Witness ==
    /\ argument[1] # argument[2]
    /\ pc[1] = "done"
    /\ Returned(1) = <<"c", ".">>
    /\ pc[2] = "fix_nbsp"
    /\ exceptions[Frame(2)] = << <<"c", ".", "p", "y">> >>

-----------------------------------------------------------------------------
(* fix_dash on runs of four dashes and more                                *)

\* Call 1 stands at the given statement of fix_typos with the text t as its
\* local text and the locale of id L as its loc.
AtStatement(statement, t, L) ==
    /\ argument = [c \in Calls |-> IF c = 1 THEN Arguments(t, L, TRUE) ELSE NoCall]
    /\ pc = [c \in Calls |-> IF c = 1 THEN statement ELSE "absent"]
    /\ text = [f \in Calls |-> IF f = Frame(1) THEN t ELSE <<>>]
    /\ loc = [f \in Calls |-> IF f = Frame(1) THEN get_locale(L) ELSE None]
    /\ exceptions = [f \in Calls |-> <<>>]
    /\ stages = [c \in Calls |-> <<>>]
    /\ result = [c \in Calls |-> <<>>]
    /\ rewriter = NoRewriter

\* The length of the longest run of dashes.
MaxRun == 4

\* The runs of more dashes than the "{1,3}" of the patterns takes, of
\* hyphens, en dashes and em dashes in every mixture.
LongRuns == {r \in Texts(Dashes, MaxRun) : Len(r) > 3}

\* What stands to the left and to the right of the run, with or without a
\* space in between: a word, a bracket, a punctuation mark.
RunLefts == {<<"c">>, <<"(">>}
RunRights == {<<"c">>, <<"!">>, <<")">>}
RunGaps == {<<>>, <<SPACE>>}

LongRunTexts ==
    {l \o g \o r \o h \o rt : l \in RunLefts, g \in RunGaps, r \in LongRuns,
                              h \in RunGaps, rt \in RunRights}

InitLongRuns ==
    \E t \in LongRunTexts, L \in SUPPORTED_LOCALES : AtStatement("fix_dash", t, L)

SpecLongRuns == InitLongRuns /\ [][DashNext]_vars

\* The runs of four dashes and more of a text, the first one first.
RECURSIVE LongRunsFrom(_, _)
LongRunsFrom(t, i) ==
    IF i > Len(t) THEN <<>>
    ELSE IF t[i] \notin Dashes THEN LongRunsFrom(t, i + 1)
    ELSE LET j == RunEnd(t, i, Dashes)
         IN  (IF j - i + 1 > 3 THEN <<SubSeq(t, i, j)>> ELSE <<>>)
             \o LongRunsFrom(t, j + 1)

\* The text stands between an opening and a closing bracket but for spaces
\* and dashes: pattern_within of fix_dash_between_word_and_brackets.
WithinBrackets(t) ==
    /\ Len(t) >= 2
    /\ t[1] \in OPENING_BRACKETS
    /\ t[Len(t)] \in CLOSING_BRACKETS

\* C11: in every locale fix_dash leaves every run of four or more hyphens,
\* en dashes and em dashes as it is: the text it returns holds the same runs
\* of four dashes and more as the text it was given, and but for the spaces
\* between a pair of brackets and the run inside it the whole text is
\* returned unchanged ("c ---- c", "c ----!").
C11_LongRunsUntouched ==
    pc[1] = "fix_double_quotes" =>
        /\ LongRunsFrom(text[Frame(1)], 1) = LongRunsFrom(argument[1].text, 1)
        /\ ~WithinBrackets(argument[1].text) => text[Frame(1)] = argument[1].text

\* fix_dash has returned "c ----!" as it was, in the locale cs.
C11_Witness ==
    /\ pc[1] = "fix_double_quotes"
    /\ argument[1].locale = CS
    /\ argument[1].text = <<"c", SPACE, "-", "-", "-", "-", "!">>
    /\ text[Frame(1)] = argument[1].text

-----------------------------------------------------------------------------
(* fix_dash on dashes between two words                                    *)

\* What stands to the left and to the right of the dashes: a word of the
\* letters a-z, a word that ends in a letter of the Czech alphabet (as
\* "ptaskY - cadic" of test_dash.py l.107 with its accents), a number.
WordLefts == {<<"c">>, <<C_CARON>>, <<"1">>}
WordRights == {<<"c">>, <<"1">>}
WordGaps == {<<>>, <<SPACE>>, <<NBSP, SPACE>>}

\* Runs of hyphens, and runs of en and em dashes in every mixture.
WordRuns ==
    {r \in Texts({HYPHEN}, MaxRun) \cup Texts({EN_DASH, EM_DASH}, MaxRun) : Len(r) > 0}

BetweenWordsTexts ==
    {l \o g \o r \o h \o rt : l \in WordLefts, g \in WordGaps, r \in WordRuns,
                              h \in WordGaps, rt \in WordRights}

InitBetweenWords ==
    \E t \in BetweenWordsTexts, L \in SUPPORTED_LOCALES : AtStatement("fix_dash", t, L)

SpecBetweenWords == InitBetweenWords /\ [][DashNext]_vars

\* The parts of a text of BetweenWordsTexts: the dashes, and how many spaces
\* stand before and after them.
DashesOf(t) == SelectSeq(t, LAMBDA c : c \in Dashes)
SpacesBefore(t) == Min({k \in 1..Len(t) : t[k] \in Dashes}) - 2
SpacesAfter(t) == Len(t) - 1 - SpacesBefore(t) - Len(DashesOf(t)) - 1
IsLetter(c) == c \in ALL_CHARS \cup NonLatinLetters
OneToThree(t, kinds) ==
    /\ Len(DashesOf(t)) <= 3
    /\ \A k \in 1..Len(DashesOf(t)) : DashesOf(t)[k] \in kinds

\* The text with the locale dash and its spaces between the two words.
WithLocaleDash(t, l) == <<t[1]>> \o DashReplacement(l) \o <<t[Len(t)]>>

\* C12: between two words fix_dash leaves one to three hyphens that have no
\* space on one side or on both as they are, in every locale, and rewrites
\* one to three en or em dashes to the dash of the locale whether spaces
\* surround them or not.
C12_HyphenNeedsSpaces ==
    LET t == argument[1].text
    IN  (pc[1] = "fix_double_quotes" /\ IsLetter(t[1]) /\ IsLetter(t[Len(t)])) =>
            /\ (OneToThree(t, {HYPHEN}) /\ (SpacesBefore(t) = 0 \/ SpacesAfter(t) = 0))
                   => text[Frame(1)] = t
            /\ OneToThree(t, {EN_DASH, EM_DASH})
                   => text[Frame(1)] = WithLocaleDash(t, loc[Frame(1)])

\* C13: in every locale fix_dash replaces one to three hyphens with spaces
\* on both sides, and one to three en or em dashes with or without spaces,
\* between two words or a word and a number by the space before the dash,
\* the dash and the space after the dash of the locale.
C13_LocaleDashBetweenWords ==
    LET t == argument[1].text
    IN  (/\ pc[1] = "fix_double_quotes"
         /\ IsLetter(t[1]) \/ t[1] \in Digits
         /\ IsLetter(t[Len(t)]) \/ t[Len(t)] \in Digits
         /\ IsLetter(t[1]) \/ IsLetter(t[Len(t)])
         /\ \/ OneToThree(t, {HYPHEN}) /\ SpacesBefore(t) > 0 /\ SpacesAfter(t) > 0
            \/ OneToThree(t, {EN_DASH, EM_DASH})) =>
            text[Frame(1)] = WithLocaleDash(t, loc[Frame(1)])

-----------------------------------------------------------------------------
(* The two quote statements on quoted texts                                *)

\* A text as it stands before one of the two quote statements of fix_typos.
QuoteCase(statement, t) == [at |-> statement, text |-> t]

\* The length of the longest text between a pair of quotes.
MaxContent == 4

\* Words between a pair of straight double quotes: letters and spaces, a
\* letter first and a letter last ("quoted material", "Hello world").
QuotedWords ==
    {w \in Texts({"c", "C", SPACE}, MaxContent) :
        Len(w) > 0 /\ w[1] # SPACE /\ w[Len(w)] # SPACE}

PairCases ==
    {QuoteCase("fix_double_quotes",
               <<STRAIGHT_DOUBLE_QUOTE>> \o w \o <<STRAIGHT_DOUBLE_QUOTE>>)
     : w \in QuotedWords}

\* A pair of straight double quotes around a word and a number ("Localhost
\* 3000"), alone, after a word, after a number, before a word.
NumberWords == {<<"c", "c">>}
Numbers == {<<"1">>, <<"1", "2">>, <<"3", "0", "0", "0">>}
BeforePair == {<<>>, <<"c", "c", SPACE>>, <<"1", SPACE>>}
AfterPair == {<<>>, <<SPACE, "c", "c">>}

NumberCases ==
    {QuoteCase("fix_double_quotes",
               b \o <<STRAIGHT_DOUBLE_QUOTE>> \o w \o <<SPACE>> \o n
               \o <<STRAIGHT_DOUBLE_QUOTE>> \o a)
     : b \in BeforePair, w \in NumberWords, n \in Numbers, a \in AfterPair}

\* Measurements: a number of one to three digits and a straight single or
\* double quote after it, with or without a space in between ("12' 45"" of
\* test_single_quotes.py l.1551), one or two of them, alone or among words.
MeasureNumbers == {<<"1">>, <<"1", "2">>, <<"1", "2", "3">>}
MeasureGlyphs == {STRAIGHT_SINGLE_QUOTE, STRAIGHT_DOUBLE_QUOTE}
Measures ==
    {n \o g \o <<q>> : n \in MeasureNumbers, g \in {<<>>, <<SPACE>>}, q \in MeasureGlyphs}
BeforeMeasure == {<<>>, <<"c", "c", SPACE>>}
AfterMeasure == {<<>>, <<SPACE, "c", "c">>}

MeasureCases ==
    {QuoteCase("fix_double_quotes", b \o m \o a)
     : b \in BeforeMeasure, m \in Measures \cup {m1 \o <<SPACE>> \o m2 : m1, m2 \in Measures},
       a \in AfterMeasure}

\* Word pairs of the list of identify_contracted_and around a quoted "n", in
\* lower case, capitalised and in upper case, with and without a space on
\* either side of the quoted letter, in straight and in curly single quotes.
ContractedPairs ==
    {<<<<"r", "o", "c", "k">>, <<"r", "o", "l", "l">>>>, <<<<"R", "o", "c", "k">>, <<"R", "o", "l", "l">>>>, <<<<"R", "O", "C", "K">>, <<"R", "O", "L", "L">>>>,
     <<<<"m", "a", "c">>, <<"c", "h", "e", "e", "s", "e">>>>}
ContractedQuotes ==
    {<<STRAIGHT_SINGLE_QUOTE, STRAIGHT_SINGLE_QUOTE>>, <<LEFT_SINGLE_QUOTE, RIGHT_SINGLE_QUOTE>>}
ContractedGaps == {<<>>, <<SPACE>>}

\* The words p around the letter n in the quotes q, after the gaps g and h.
ContractedText(p, g, q, n, h) == p[1] \o g \o <<q[1], n, q[2]>> \o h \o p[2]

ContractedCases ==
    {QuoteCase("fix_single_quotes", ContractedText(p, g, q, n, h))
     : p \in ContractedPairs, g \in ContractedGaps, q \in ContractedQuotes,
       n \in {"n", "N"}, h \in ContractedGaps}

\* Direct speech between two dashes: the input 'He said - "Hello" - and
\* left.' of the scenario, and "cc", a dash, "Cc" in quotes, a dash, "cc."
\* with a hyphen, an en dash or an em dash on either side.
SpeechIntros == {<<"H", "e", " ", "s", "a", "i", "d">>, <<"c", "c">>}
SpeechDashes == {HYPHEN, EN_DASH, EM_DASH}

\* The sentence: the words i, the dash d, the quoted words q, the dash e, the
\* words r.
SpeechText(i, d, q, e, r) ==
    i \o <<SPACE, d, SPACE, STRAIGHT_DOUBLE_QUOTE>> \o q
    \o <<STRAIGHT_DOUBLE_QUOTE, SPACE, e, SPACE>> \o r

HeSaid == SpeechText(<<"H", "e", " ", "s", "a", "i", "d">>, HYPHEN, <<"H", "e", "l", "l", "o">>, HYPHEN, <<"a", "n", "d", " ", "l", "e", "f", "t", ".">>)

SpeechTexts ==
    {HeSaid} \cup {SpeechText(<<"c", "c">>, d, <<"C", "c">>, e, <<"c", "c", ".">>) : d, e \in SpeechDashes}

SpeechCases == {QuoteCase("fix_double_quotes", t) : t \in SpeechTexts}

QuoteCases ==
    PairCases \cup NumberCases \cup MeasureCases \cup ContractedCases \cup SpeechCases

InitQuotes ==
    \E q \in QuoteCases, L \in SUPPORTED_LOCALES : AtStatement(q.at, q.text, L)

QuotesNext == FixDoubleQuotes(1) \/ FixSingleQuotes(1)

SpecQuotes == InitQuotes /\ [][QuotesNext]_vars

\* The text between the first and the last character of the text.
Inner(t) == SubSeq(t, 2, Len(t) - 1)

\* The text w between the double quotes of the locale.
InLocaleDoubleQuotes(w, l) == <<l.double_quote_open>> \o w \o <<l.double_quote_close>>

\* fix_double_quotes has run on a text of PairCases.
PairDone ==
    /\ pc[1] = "fix_single_quotes"
    /\ QuoteCase("fix_double_quotes", argument[1].text) \in PairCases

\* A lower-case letter stands alone before a space, as the prepositions of
\* add_nbsp_after_preposition do.
HasShortWord(w) ==
    \E k \in 1..(Len(w) - 1) :
        /\ w[k] \in LOWERCASE_CHARS
        /\ w[k + 1] = SPACE
        /\ (k = 1 \/ w[k - 1] = SPACE)

WithLocaleDoubleQuotes(t, l) ==
    LET at == {k \in 1..Len(t) : t[k] = STRAIGHT_DOUBLE_QUOTE}
    IN  [k \in 1..Len(t) |->
            IF k = Min(at) THEN l.double_quote_open
            ELSE IF k = Max(at) THEN l.double_quote_close
            ELSE t[k]]

\* C15: in every locale a pair of double quotes around a text that ends in a
\* number becomes the pair of quotes of the locale around the same text, and
\* the quote after the number does not become a double prime.
C15_NumberPairResolved ==
    (/\ pc[1] = "fix_single_quotes"
     /\ QuoteCase("fix_double_quotes", argument[1].text) \in NumberCases) =>
        text[Frame(1)] = WithLocaleDoubleQuotes(argument[1].text, loc[Frame(1)])

\* C15 where no number stands before the pair: there the pair is resolved
\* as the claim says.
C15_ResolvedAfterWords ==
    (/\ pc[1] = "fix_single_quotes"
     /\ QuoteCase("fix_double_quotes", argument[1].text) \in NumberCases
     /\ argument[1].text[1] \notin Digits) =>
        text[Frame(1)] = WithLocaleDoubleQuotes(argument[1].text, loc[Frame(1)])

\* The text with a prime for each straight single quote and a double prime
\* for each straight double quote, and without the space between a digit and
\* the quote after it.
RECURSIVE Primed(_)
Primed(t) ==
    IF t = <<>> THEN <<>>
    ELSE IF Len(t) > 2 /\ t[1] \in Digits /\ t[2] = SPACE /\ t[3] \in MeasureGlyphs
    THEN <<t[1]>> \o Primed(SubSeq(t, 3, Len(t)))
    ELSE <<IF t[1] = STRAIGHT_SINGLE_QUOTE THEN SINGLE_PRIME
           ELSE IF t[1] = STRAIGHT_DOUBLE_QUOTE THEN DOUBLE_PRIME
           ELSE t[1]>> \o Primed(Tail(t))

\* The two quote statements have run on a text of MeasureCases.
MeasureDone ==
    /\ pc[1] = "fix_multiplication_sign"
    /\ QuoteCase("fix_double_quotes", argument[1].text) \in MeasureCases

\* C16: in every locale a straight single or double quote after a number of
\* one to three digits, not one of a pair of quotes, becomes a prime and not
\* a quote: the single quote a single prime, the double quote a double prime
\* ("12' 45"" becomes 12, prime, space, 45, double prime).
C16_MeasureGetsPrime ==
    MeasureDone => text[Frame(1)] = Primed(argument[1].text)

\* The two statements have made the primes of "12' 45"" in the locale rue.
C16_Witness ==
    /\ pc[1] = "fix_multiplication_sign"
    /\ argument[1].locale = RUE
    /\ argument[1].text = <<"1", "2", STRAIGHT_SINGLE_QUOTE, SPACE, "1", "2", STRAIGHT_DOUBLE_QUOTE>>
    /\ text[Frame(1)] = <<"1", "2", SINGLE_PRIME, SPACE, "1", "2", DOUBLE_PRIME>>

\* fix_single_quotes has run on a text of ContractedCases.
ContractedDone ==
    /\ pc[1] = "fix_multiplication_sign"
    /\ QuoteCase("fix_single_quotes", argument[1].text) \in ContractedCases

\* C17: in every locale the single quotes around the letter n between the
\* two words of a listed pair ("rock 'n' roll"), in any letter case and with
\* or without spaces around the quoted letter, become apostrophes (U+2019)
\* and not an opening and a closing single quote; the words and the letter
\* stay as they are, with a no-break space on either side of the apostrophes.
C17_ContractedAndApostrophes ==
    ContractedDone =>
        \E p \in ContractedPairs, n \in {"n", "N"} :
            /\ \E g, h \in ContractedGaps, q \in ContractedQuotes :
                   argument[1].text = ContractedText(p, g, q, n, h)
            /\ text[Frame(1)]
                   = ContractedText(p, <<NBSP>>, <<APOSTROPHE, APOSTROPHE>>, n, <<NBSP>>)

\* fix_single_quotes has made the apostrophes of "rock 'n' roll" in the
\* locale cs.
C17_Witness ==
    /\ pc[1] = "fix_multiplication_sign"
    /\ argument[1].locale = CS
    /\ argument[1].text = <<"r", "o", "c", "k">> \o <<SPACE, STRAIGHT_SINGLE_QUOTE, "n", STRAIGHT_SINGLE_QUOTE, SPACE>> \o <<"r", "o", "l", "l">>
    /\ text[Frame(1)] = <<"r", "o", "c", "k">> \o <<NBSP, APOSTROPHE, "n", APOSTROPHE, NBSP>> \o <<"r", "o", "l", "l">>

\* direct_speech_intro of fix_direct_speech_intro: a comma in en-us, a colon
\* in the other locales.
SpeechIntro(l) == IF l.locale_id = EN_US THEN <<",">> ELSE <<":">>

\* The sentence as the claim has it: the words i, the punctuation of the
\* locale and one space, the words q in the quotes of the locale, one space
\* and the words r.
SpeechFixed(i, q, r, l) ==
    i \o SpeechIntro(l) \o <<SPACE>> \o InLocaleDoubleQuotes(q, l) \o <<SPACE>> \o r

\* C18: for the input 'He said - "Hello" - and left.' the dash before the
\* quoted words becomes the comma (en-us) or the colon (the other locales)
\* and exactly one space, the dash after the closing quote is removed, and
\* the quotes are those of the locale; the same holds with an en dash or an
\* em dash in place of either hyphen.
C18_DirectSpeech ==
    pc[1] = "fix_single_quotes" =>
        /\ argument[1].text = HeSaid =>
               text[Frame(1)] = SpeechFixed(<<"H", "e", " ", "s", "a", "i", "d">>, <<"H", "e", "l", "l", "o">>, <<"a", "n", "d", " ", "l", "e", "f", "t", ".">>, loc[Frame(1)])
        /\ \A d, e \in SpeechDashes :
               argument[1].text = SpeechText(<<"c", "c">>, d, <<"C", "c">>, e, <<"c", "c", ".">>) =>
                   text[Frame(1)] = SpeechFixed(<<"c", "c">>, <<"C", "c">>, <<"c", "c", ".">>, loc[Frame(1)])

\* fix_double_quotes has returned 'He said, "Hello" and left.' with the
\* quotes of en-us for the input of the scenario.
C18_Witness ==
    /\ pc[1] = "fix_single_quotes"
    /\ argument[1].locale = EN_US
    /\ argument[1].text = HeSaid
    /\ text[Frame(1)] = <<"H", "e", " ", "s", "a", "i", "d", ",", " ">> \o <<LEFT_DOUBLE_QUOTE>> \o <<"H", "e", "l", "l", "o">>
                        \o <<RIGHT_DOUBLE_QUOTE>> \o <<" ", "a", "n", "d", " ", "l", "e", "f", "t", ".">>

-----------------------------------------------------------------------------
(* The period at the closing single quote:                                 *)
(* src/tests/punctuation/test_single_quotes.py, l.525-686, calls           *)
(* swap_single_quotes_and_terminal_punctuation(text, Locale(locale_id)) on *)
(* texts that hold the single quotes of the locale.                        *)

\* The words before a quoted part, the quoted words, and what follows the
\* closing quote and the period.
SwapBefores == {<<"c">>, <<"o", "n", "l", "y", " ", "a">>}
SwapContents ==
    {<<"c">>, <<"c", "c">>, <<"c", " ", "c">>, <<"I">>, <<"c", " ", "I">>, <<"q", "u", "o", "t", "e", "d", " ", "p", "a", "r", "t">>, <<"H", "e", " ", "w", "a", "s", " ", "o", "k">>}
SwapAfters == {<<>>, <<" ", "c">>}

\* A quoted part within a sentence, its period inside the quotes of the
\* locale l, and the same with the period outside.
PartInside(b, q, a, l) ==
    b \o <<SPACE, l.single_quote_open>> \o q \o <<".", l.single_quote_close>> \o a
PartOutside(b, q, a, l) ==
    b \o <<SPACE, l.single_quote_open>> \o q \o <<l.single_quote_close, ".">> \o a

\* A quoted sentence at the beginning of the text, its period outside the
\* quotes of the locale l, and the same with the period inside.
SentenceOutside(q, a, l) ==
    <<l.single_quote_open>> \o q \o <<l.single_quote_close, ".">> \o a
SentenceInside(q, a, l) ==
    <<l.single_quote_open>> \o q \o <<".", l.single_quote_close>> \o a

SwapTexts(l) ==
    {PartInside(b, q, a, l) : b \in SwapBefores, q \in SwapContents, a \in SwapAfters}
    \cup {SentenceOutside(q, a, l) : q \in SwapContents, a \in SwapAfters}

InitSwap ==
    \E L \in SUPPORTED_LOCALES :
        \E t \in SwapTexts(get_locale(L)) :
            AtStatement("swap_single_quotes_and_terminal_punctuation", t, L)

\* The call of the tests: the text becomes what the function returns.
SwapSingleQuotes(c) ==
    /\ pc[c] = "swap_single_quotes_and_terminal_punctuation"
    /\ text' = [text EXCEPT ![Frame(c)] =
                    swap_single_quotes_and_terminal_punctuation(text[Frame(c)], loc[Frame(c)])]
    /\ pc' = [pc EXCEPT ![c] = "returned"]
    /\ stages' = [stages EXCEPT ![c] =
                      Append(@, "swap_single_quotes_and_terminal_punctuation")]
    /\ UNCHANGED <<argument, loc, exceptions, result, rewriter>>

SwapNext == SwapSingleQuotes(1)

SpecSwap == InitSwap /\ [][SwapNext]_vars

SwapDone == pc[1] = "returned"

\* C19 as stated: in every locale the period just inside the closing quote of
\* a quoted part within a sentence moves outside the quote, and the period
\* just after the closing quote of a quoted sentence moves inside.
C19_PeriodSwaps ==
    SwapDone =>
        \A q \in SwapContents, a \in SwapAfters :
            /\ \A b \in SwapBefores :
                   argument[1].text = PartInside(b, q, a, loc[Frame(1)]) =>
                       text[Frame(1)] = PartOutside(b, q, a, loc[Frame(1)])
            /\ argument[1].text = SentenceOutside(q, a, loc[Frame(1)]) =>
                   text[Frame(1)] = SentenceInside(q, a, loc[Frame(1)])

\* The quoted words the five patterns match: "[^right_quote]+?" and
\* "[^ROMAN_NUMERALS]" take two characters at least, the last of them no
\* letter of a Roman numeral.
Swappable(q) == Len(q) >= 2 /\ q[Len(q)] \notin ROMAN_NUMERALS

\* What the function does on the texts of SwapTexts: the periods of C19 move
\* when the quoted words are two characters or more and do not end in a
\* letter of a Roman numeral; the period of a quoted part stays inside when
\* a space and a lower-case letter follow the closing quote (pattern2 moves
\* it back); every other text is returned as it is.
C19_SwapsLongerQuotes ==
    SwapDone =>
        \A q \in SwapContents, a \in SwapAfters :
            /\ \A b \in SwapBefores :
                   argument[1].text = PartInside(b, q, a, loc[Frame(1)]) =>
                       text[Frame(1)] =
                           IF Swappable(q) /\ a = <<>>
                           THEN PartOutside(b, q, a, loc[Frame(1)])
                           ELSE argument[1].text
            /\ argument[1].text = SentenceOutside(q, a, loc[Frame(1)]) =>
                   text[Frame(1)] =
                       IF Swappable(q)
                       THEN SentenceInside(q, a, loc[Frame(1)])
                       ELSE argument[1].text

\* The function has returned the two texts of the claim in the locale rue
\* with the periods moved.
C19_PartMoved ==
    /\ SwapDone
    /\ argument[1].locale = RUE
    /\ argument[1].text = PartInside(<<"o", "n", "l", "y", " ", "a">>, <<"q", "u", "o", "t", "e", "d", " ", "p", "a", "r", "t">>, <<>>, loc[Frame(1)])
    /\ text[Frame(1)] = PartOutside(<<"o", "n", "l", "y", " ", "a">>, <<"q", "u", "o", "t", "e", "d", " ", "p", "a", "r", "t">>, <<>>, loc[Frame(1)])

\* The function has returned the one-letter quoted part "c" in the locale
\* en-us with its period still inside the quotes.
C19_OneLetterKept ==
    /\ SwapDone
    /\ argument[1].locale = EN_US
    /\ argument[1].text = PartInside(<<"o", "n", "l", "y", " ", "a">>, <<"c">>, <<>>, loc[Frame(1)])
    /\ text[Frame(1)] = argument[1].text

-----------------------------------------------------------------------------
(* Blank input: src/src/pytypopo/__init__.py, l.80-82                      *)

\* Call c was given a text of spaces, tabs and newlines only, or the empty
\* text, and a supported locale.
GivenBlank(c) ==
    /\ argument[c].made
    /\ argument[c].text \in BlankTexts
    /\ argument[c].locale \in SUPPORTED_LOCALES

\* C20: for an empty text and for a text of spaces, tabs or newlines only,
\* in every locale, fix_typos returns the empty text, and no statement of
\* its body after the test of the text is executed: the call is at the
\* test or has returned, and every value it returned is the empty text.
C20_BlankReturnsEmpty ==
    \A c \in Calls :
        GivenBlank(c) =>
            /\ pc[c] \in {"idle", "enter", "done"}
            /\ stages[c] = <<>>
            /\ loc[Frame(c)] = None
            /\ pc[c] = "done" => Len(result[c]) >= 1
            /\ \A k \in 1..Len(result[c]) : result[c][k] = <<>>

\* fix_typos has returned the empty text for a tab, a space and a newline
\* in the locale sk.
C20_Witness ==
    /\ pc[1] = "done"
    /\ argument[1].locale = SK
    /\ argument[1].text = <<TAB, SPACE, NEWLINE>>
    /\ result[1] = << <<>> >>
    /\ stages[1] = <<>>

-----------------------------------------------------------------------------
(* The locale of a call: src/src/pytypopo/locale/base.py, l.173-212        *)

\* The ids a and b are the same but for the case of their letters.
SameButCase(a, b) ==
    /\ Len(a) = Len(b)
    /\ \A k \in 1..Len(a) : ToLower(a[k]) = ToLower(b[k])

\* The supported locale the id names, whatever the case of its letters, and
\* en-us for None, for the empty id and for an id that names none.
Resolved(id) ==
    IF id # None /\ \E L \in SUPPORTED_LOCALES : SameButCase(id, L)
    THEN CHOOSE L \in SUPPORTED_LOCALES : SameButCase(id, L)
    ELSE EN_US

\* Call c has executed loc = get_locale(locale).
HasLocale(c) == argument[c].made /\ loc[Frame(c)] # None

\* C21: the resolution of the locale never fails; the id is matched without
\* regard to the case of its letters, and None, the empty id and the id of
\* no supported locale give the profile of en-us.
C21_LocaleResolution ==
    \A c \in Calls :
        /\ pc[c] # "raised"
        /\ HasLocale(c) =>
               loc[Frame(c)] = [locale_id |-> Resolved(argument[c].locale)]
                                   @@ LOCALE_CONFIGS[Resolved(argument[c].locale)]

\* A call with the id "CS" has the profile of cs, and its quotes.
C21_Witness ==
    \E c \in Calls :
        /\ HasLocale(c)
        /\ argument[c].locale = <<"C", "S">>
        /\ loc[Frame(c)].locale_id = CS
        /\ loc[Frame(c)].double_quote_open = DOUBLE_LOW_9_QUOTE

-----------------------------------------------------------------------------
(* Quoted words between backticks: src/tests/test_integration.py,          *)
(* l.192-197, test_backticks_treated_as_regular_chars                      *)

\* The words before the quoted words, and the quoted words.
BacktickWords == {<<>>, <<"c", "c", " ">>, <<"c", "o", "d", "e", " ", "w", "i", "t", "h", " ">>}
BacktickQuoted == {<<"c", "c">>, <<"q", "u", "o", "t", "e", "s">>}

\* The words w and the words q in the quotes open and close, all of it
\* between two characters tick.
Ticked(tick, w, open, q, close) ==
    <<tick>> \o w \o <<open>> \o q \o <<close>> \o <<tick>>

BacktickTexts ==
    {Ticked(BACKTICK, w, STRAIGHT_DOUBLE_QUOTE, q, STRAIGHT_DOUBLE_QUOTE) :
         w \in BacktickWords, q \in BacktickQuoted}

InitBackticks ==
    \E t \in BacktickTexts, L \in SUPPORTED_LOCALES :
        Made([c \in Calls |-> IF c = 1 THEN Arguments(t, L, TRUE) ELSE NoCall])

SpecBackticks == InitBackticks /\ [][Next]_vars

\* C22 as stated: with the default locale fix_typos returns the words with
\* each backtick turned into U+2019 and the straight quotes turned into the
\* left and the right double quote.
C22_BackticksBecomeApostrophes ==
    (pc[1] = "done" /\ argument[1].locale = DEFAULT_LOCALE) =>
        \A w \in BacktickWords, q \in BacktickQuoted :
            argument[1].text
                = Ticked(BACKTICK, w, STRAIGHT_DOUBLE_QUOTE, q, STRAIGHT_DOUBLE_QUOTE) =>
                    result[1][1]
                        = Ticked(RIGHT_SINGLE_QUOTE, w, LEFT_DOUBLE_QUOTE, q, RIGHT_DOUBLE_QUOTE)

\* What fix_typos returns for the texts of BacktickTexts in every locale: the
\* backticks as they were and the words q in the double quotes of the
\* locale, the first time and the second time.
C22_BackticksStay ==
    pc[1] = "done" =>
        \A w \in BacktickWords, q \in BacktickQuoted :
            argument[1].text
                = Ticked(BACKTICK, w, STRAIGHT_DOUBLE_QUOTE, q, STRAIGHT_DOUBLE_QUOTE) =>
                    \A k \in 1..Len(result[1]) :
                        result[1][k] = Ticked(BACKTICK, w, loc[Frame(1)].double_quote_open,
                                              q, loc[Frame(1)].double_quote_close)

\* fix_typos has returned the text of the test in the locale en-us with its
\* backticks.
C22_TestTextReturned ==
    /\ pc[1] = "done"
    /\ argument[1].locale = EN_US
    /\ argument[1].text = <<BACKTICK>> \o <<"c", "o", "d", "e", " ", "w", "i", "t", "h", " ">> \o <<STRAIGHT_DOUBLE_QUOTE>>
                          \o <<"q", "u", "o", "t", "e", "s">> \o <<STRAIGHT_DOUBLE_QUOTE, BACKTICK>>
    /\ result[1][1] = <<BACKTICK>> \o <<"c", "o", "d", "e", " ", "w", "i", "t", "h", " ">> \o <<LEFT_DOUBLE_QUOTE>>
                      \o <<"q", "u", "o", "t", "e", "s">> \o <<RIGHT_DOUBLE_QUOTE, BACKTICK>>

-----------------------------------------------------------------------------
(* replace_with_overlap_handling on its own:                               *)
(* src/src/pytypopo/utils/regex_overlap.py, l.14-41, called as             *)
(* src/tests/utils/test_regex_overlap.py calls it, one pass of the while   *)
(* loop at a time.                                                         *)

\* A text of the rewriter: copies of the text s, two to the power
\* log2_copies of them.  The texts that are written out have one copy.
\* Only the passes that repeat the whole text make more copies, so that
\* two texts are the same text when the two records are the same.
Copies(s, e) == [s |-> s, log2_copies |-> e]
Written(s) == Copies(s, 0)

\* A str holds PY_SSIZE_T_MAX characters at most, two to the power 63 less
\* one; pattern.sub raises MemoryError for a longer result.
PY_SSIZE_T_BITS == 64 - 1
RECURSIVE Pow2(_)
Pow2(n) == IF n = 0 THEN 1 ELSE 2 * Pow2(n - 1)
Fits(s, e) ==
    e < PY_SSIZE_T_BITS
    /\ (PY_SSIZE_T_BITS - e > 30 \/ Len(s) < Pow2(PY_SSIZE_T_BITS - e))

MemoryError == [raised |-> "MemoryError"]

\* The whole text, repeated: pattern (?s).+ and a replacement of two to the
\* power k references to the match.
Repeated(t, k) ==
    IF t.s = <<>> THEN t
    ELSE IF Fits(t.s, t.log2_copies + k) THEN Copies(t.s, t.log2_copies + k)
    ELSE MemoryError

\* The rules of the calls: a pattern and a replacement.
\*   range:    (\d)-(\d) and \1, an en dash, \2 (test_regex_overlap.py l.41-45)
\*   no_match: xyz and "cc" (l.32-35)
\*   t_to_x:   t and "x" (l.162-166)
\*   swap:     [ab] and a function that returns the other letter
\*   prepend:  ^ and "a"
\*   twice:    (?s).+ and the match two times
\*   fourfold: (?s).+ and the match four times
RewriterRules == {"range", "no_match", "t_to_x", "swap", "prepend", "twice", "fourfold"}

\* pattern.sub(replacement, result) of the rule.
PatternSub(rule, t) ==
    CASE rule = "range" ->
             Written(RegexSub(<<Grp(1, Cls(Digits)), Chr(HYPHEN), Grp(2, Cls(Digits))>>,
                              <<Ref(1), Lit(<<EN_DASH>>), Ref(2)>>, t.s))
      [] rule = "no_match" ->
             Written(RegexSub(<<Str(<<"x", "y", "z">>)>>, <<Lit(<<"c", "c">>)>>, t.s))
      [] rule = "t_to_x" ->
             Written(RegexSub(<<Chr("t")>>, <<Lit(<<"x">>)>>, t.s))
      [] rule = "swap" ->
             Written(RegexSubFn(<<Cls({"a", "b"})>>, t.s,
                                LAMBDA tt, m : IF Group0(tt, m) = <<"a">>
                                               THEN <<"b">> ELSE <<"a">>))
      [] rule = "prepend" ->
             Written(RegexSub(<<Bol(FALSE)>>, <<Lit(<<"a">>)>>, t.s))
      [] rule = "twice" -> Repeated(t, 1)
      [] rule = "fourfold" -> Repeated(t, 2)

RewriterTexts == {<<>>, <<"c">>, <<"a", "b">>, <<"1", "-", "2", "-", "3">>, <<"1", "-", "2", "-", "3", "-", "4", "-", "5">>, <<"t", "e", "s", "t">>}

\* l.31-33: iterations = 0, result = text, previous_result = ""
InitRewriter ==
    /\ \E t \in RewriterTexts, rule \in RewriterRules :
           rewriter = [pc |-> "while", text |-> t, rule |-> rule,
                       result |-> Written(t), previous_result |-> Written(<<>>),
                       iterations |-> 0]
    /\ argument = [c \in Calls |-> NoCall]
    /\ pc = [c \in Calls |-> "absent"]
    /\ text = [f \in Calls |-> <<>>]
    /\ loc = [f \in Calls |-> None]
    /\ exceptions = [f \in Calls |-> <<>>]
    /\ stages = [c \in Calls |-> <<>>]
    /\ result = [c \in Calls |-> <<>>]

\* l.36: the condition of the while loop
RewriterContinues ==
    /\ rewriter.result # rewriter.previous_result
    /\ rewriter.iterations < MAX_ITERATIONS

\* l.37-39: one pass of the loop; an exception of pattern.sub leaves the
\* function.
RewriterPass ==
    /\ rewriter.pc = "while"
    /\ RewriterContinues
    /\ LET substituted == PatternSub(rewriter.rule, rewriter.result)
       IN  rewriter' = IF substituted = MemoryError
                       THEN [rewriter EXCEPT !.pc = "raised"]
                       ELSE [rewriter EXCEPT !.previous_result = rewriter.result,
                                             !.result = substituted,
                                             !.iterations = @ + 1]
    /\ UNCHANGED <<argument, pc, text, loc, exceptions, stages, result>>

\* l.41: return result
RewriterReturn ==
    /\ rewriter.pc = "while"
    /\ ~RewriterContinues
    /\ rewriter' = [rewriter EXCEPT !.pc = "returned"]
    /\ UNCHANGED <<argument, pc, text, loc, exceptions, stages, result>>

RewriterNext == RewriterPass \/ RewriterReturn

SpecRewriter == InitRewriter /\ [][RewriterNext]_vars

\* C23 as stated: whatever the text, the pattern and the replacement, the
\* function makes MAX_ITERATIONS passes at most and then returns the text it
\* has; it never raises.
C23_ReturnsWithinCeiling ==
    /\ rewriter.pc # "raised"
    /\ rewriter.iterations <= MAX_ITERATIONS
    /\ (rewriter.pc = "while" /\ rewriter.iterations = MAX_ITERATIONS) =>
           ENABLED RewriterReturn

\* The rules under which a pass makes the text two or four times as long.
Multiplying == {"twice", "fourfold"}

\* What holds of the loop: the passes are MAX_ITERATIONS at most under every
\* rule, and under the rules that do not multiply the length of the text the
\* function never raises.
C23_CeilingWithoutMultiplying ==
    /\ rewriter.iterations <= MAX_ITERATIONS
    /\ rewriter.rule \notin Multiplying => rewriter.pc # "raised"

\* The function has returned "ab" after MAX_ITERATIONS passes of the rule
\* that swaps a and b.
C23_CeilingReached ==
    /\ rewriter.pc = "returned"
    /\ rewriter.rule = "swap"
    /\ rewriter.text = <<"a", "b">>
    /\ rewriter.iterations = MAX_ITERATIONS
    /\ rewriter.result = Written(<<"a", "b">>)

\* pattern.sub has raised MemoryError in a pass of the rule that makes the
\* text four times as long, before the passes were MAX_ITERATIONS.
C23_MemoryErrorRaised ==
    /\ rewriter.pc = "raised"
    /\ rewriter.rule = "fourfold"
    /\ rewriter.text = <<"c">>
    /\ rewriter.iterations < MAX_ITERATIONS

\* The function has returned before the passes were MAX_ITERATIONS.
ReturnedEarly ==
    rewriter.pc = "returned" /\ rewriter.iterations < MAX_ITERATIONS

\* C24 as stated: when the function stops before MAX_ITERATIONS passes, one
\* more pattern.sub leaves the text it returns as it is; a text in which the
\* pattern has no match, the empty text too, is returned as it was given.
C24_FixedPointReturned ==
    /\ ReturnedEarly => PatternSub(rewriter.rule, rewriter.result) = rewriter.result
    /\ (rewriter.pc = "returned" /\ rewriter.rule = "no_match") =>
           rewriter.result = Written(rewriter.text)

\* What holds of the text returned early: it is a fixed point when the loop
\* has made a pass, and a text without a match is returned as it was given.
\* The empty text is returned without a pass, whatever the pattern.
C24_FixedPointAfterPass ==
    /\ (ReturnedEarly /\ rewriter.iterations > 0) =>
           PatternSub(rewriter.rule, rewriter.result) = rewriter.result
    /\ (rewriter.pc = "returned" /\ rewriter.rule = "no_match") =>
           rewriter.result = Written(rewriter.text)
    /\ (rewriter.pc = "returned" /\ rewriter.text = <<>>) =>
           rewriter.iterations = 0 /\ rewriter.result = Written(<<>>)

\* The function has returned "1", an en dash, "2", an en dash, "3" for
\* "1-2-3" after three passes, the last of which changed nothing.
C24_ChainReturned ==
    /\ rewriter.pc = "returned"
    /\ rewriter.rule = "range"
    /\ rewriter.text = <<"1", "-", "2", "-", "3">>
    /\ rewriter.iterations = 3
    /\ rewriter.result = Written(<<"1", EN_DASH, "2", EN_DASH, "3">>)

\* The function has returned the empty text without a pass under the rule
\* that puts "a" at the beginning of the text: one more pass gives "a".
C24_EmptyTextNotFixed ==
    /\ rewriter.pc = "returned"
    /\ rewriter.rule = "prepend"
    /\ rewriter.text = <<>>
    /\ rewriter.iterations = 0
    /\ rewriter.result = Written(<<>>)
    /\ PatternSub("prepend", rewriter.result) = Written(<<"a">>)

-----------------------------------------------------------------------------
(* The placeholders between extraction and restoration:                    *)
(* src/src/pytypopo/__init__.py, l.87-135                                  *)

\* A file name with characters on either side that the rewriting statements
\* act on, and two file names with a space, a hyphen or a spaced hyphen
\* between them.
TokenAround == {"1", "-", SPACE, ".", STRAIGHT_DOUBLE_QUOTE}
TokenTexts ==
    {p \o <<"c", ".", "p", "y">> \o s : p \in Texts(TokenAround, 2), s \in Texts(TokenAround, 1)}
    \cup {<<"c", ".", "p", "y">> \o m \o <<"1", ".", "p", "y">> : m \in {<<" ">>, <<"-">>, <<" ", "-", " ">>}}

InitTokens ==
    \E t \in TokenTexts, L \in SUPPORTED_LOCALES :
        Made([c \in Calls |-> IF c = 1 THEN Arguments(t, L, TRUE) ELSE NoCall])

SpecTokens == InitTokens /\ [][Next]_vars

\* The statements between exclude_exceptions and place_exceptions.
RewriteStatements ==
    {STATEMENTS[k] : k \in 2..(Len(STATEMENTS) - 1)}

\* The placeholders in the text of frame f, by the index of their exception.
TokensIn(t, f) ==
    {k \in 0..(Len(exceptions[f]) - 1) : Contains(t, Placeholder(k))}

\* C25: no statement of fix_typos between the extraction and the
\* restoration of the exceptions changes a placeholder: every placeholder in
\* the text before the statement is in the text after it, character for
\* character, and so all of them are in the text place_exceptions is given.
C25_TokensSurvive ==
    [][\A c \in Calls :
          (pc[c] \in RewriteStatements /\ pc'[c] # pc[c]) =>
              TokensIn(text[Frame(c)], Frame(c)) \subseteq TokensIn(text'[Frame(c)], Frame(c))]_vars

\* place_exceptions is about to run on a text with the two placeholders of
\* the text "c.py - 1.py", and the hyphen between them has become the dash
\* of the locale.
C25_Witness ==
    /\ pc[1] = "place_exceptions"
    /\ argument[1].text = <<"c", ".", "p", "y", " ", "-", " ", "1", ".", "p", "y">>
    /\ TokensIn(text[Frame(1)], Frame(1)) = {0, 1}
    /\ ~Contains(text[Frame(1)], <<HYPHEN, SPACE>>)

-----------------------------------------------------------------------------
(* The tags of a stage are gone when the stage returns:                    *)
(* src/src/pytypopo/modules/punctuation/dash.py, l.221-224,                *)
(* double_quotes.py, l.233-246, single_quotes.py, l.468-494                *)

MaxTagText == 3
TagChars == {"c", "1", SPACE, HYPHEN, STRAIGHT_DOUBLE_QUOTE, STRAIGHT_SINGLE_QUOTE}
TagTexts ==
    Texts(TagChars, MaxTagText)
    \cup {<<"1", "-", "1", "-", "1">>, <<"c", " ", "-", " ", "c">>,
          <<STRAIGHT_DOUBLE_QUOTE, "c", SPACE, STRAIGHT_SINGLE_QUOTE, "c",
            STRAIGHT_SINGLE_QUOTE, SPACE, "c", STRAIGHT_DOUBLE_QUOTE>>,
          <<"1", STRAIGHT_SINGLE_QUOTE, SPACE, "1", STRAIGHT_DOUBLE_QUOTE>>,
          <<"c", STRAIGHT_SINGLE_QUOTE, "c", SPACE, STRAIGHT_DOUBLE_QUOTE, "c">>}

InitTags ==
    \E t \in TagTexts, L \in SUPPORTED_LOCALES : AtStatement("fix_dash", t, L)

TagsNext == FixDash(1) \/ FixDoubleQuotes(1) \/ FixSingleQuotes(1)

SpecTags == InitTags /\ [][TagsNext]_vars

\* The opening of every tag of the package.
TAG_OPENING == <<"{", "{", "t", "y", "p", "o", "p", "o", "_", "_">>

\* C26: a text without a tag opening, given to fix_dash, to
\* fix_double_quotes_and_primes or to fix_single_quotes_primes_and_apostrophes,
\* comes back without one: every tag the stage wrote is a glyph or is gone.
C26_NoTagLeft ==
    [][(~Contains(text[1], TAG_OPENING) /\ pc'[1] # pc[1])
          => ~Contains(text'[1], TAG_OPENING)]_vars

\* The quotes of a text are tagged and the tags replaced by the glyphs of the
\* locale, and the hyphen between two numbers by an en dash.
C26_Witness ==
    /\ pc[1] = "fix_multiplication_sign"
    /\ argument[1].text = <<STRAIGHT_DOUBLE_QUOTE, "c", SPACE, STRAIGHT_SINGLE_QUOTE, "c",
                            STRAIGHT_SINGLE_QUOTE, SPACE, "c", STRAIGHT_DOUBLE_QUOTE>>
    /\ loc[1].locale_id = DE_DE
    /\ text[1] = <<loc[1].double_quote_open, "c", NBSP, loc[1].single_quote_open, "c",
                   loc[1].single_quote_close, SPACE, "c", loc[1].double_quote_close>>

-----------------------------------------------------------------------------
(* The body of fix_single_quotes_primes_and_apostrophes, statement by      *)
(* statement: src/src/pytypopo/modules/punctuation/single_quotes.py,       *)
(* l.527-564                                                               *)

\* Contractions of the five kinds, a quoted word, a quoted word in a quoted
\* sentence, and feet.
BodyTexts ==
    {<<"r", "o", "c", "k", " ", STRAIGHT_SINGLE_QUOTE, "n", STRAIGHT_SINGLE_QUOTE, " ", "r", "o", "l", "l">>, <<STRAIGHT_SINGLE_QUOTE, "t", "i", "s">>, <<"d", "o", "n", STRAIGHT_SINGLE_QUOTE, "t">>, <<"i", "n", " ", STRAIGHT_SINGLE_QUOTE, "6", "9">>, <<"n", "o", "t", "h", "i", "n", STRAIGHT_SINGLE_QUOTE>>,
     <<STRAIGHT_SINGLE_QUOTE, "c", "c", STRAIGHT_SINGLE_QUOTE>>, <<"c", " ", STRAIGHT_SINGLE_QUOTE, "c", "c", STRAIGHT_SINGLE_QUOTE, " ", "c">>, <<"1", STRAIGHT_SINGLE_QUOTE, " ", "1">>, <<"c">>,
     <<STRAIGHT_DOUBLE_QUOTE, "c", SPACE, STRAIGHT_SINGLE_QUOTE, "c", SPACE, "c",
       STRAIGHT_SINGLE_QUOTE, SPACE, "c", STRAIGHT_DOUBLE_QUOTE>>,
     <<STRAIGHT_DOUBLE_QUOTE, "d", "o", "n", STRAIGHT_SINGLE_QUOTE, "t", SPACE,
       STRAIGHT_SINGLE_QUOTE, "c", SPACE, "c", STRAIGHT_SINGLE_QUOTE,
       STRAIGHT_DOUBLE_QUOTE>>}

InitBody ==
    \E t \in BodyTexts, L \in SUPPORTED_LOCALES :
        AtStatement("identify_markdown_code_ticks", t, L)

\* l.530: the text with its code spans masked; markdown_blocks, a local that
\* no statement assigns again, is what the call gives for the argument.
IdentifyMarkdownCodeTicks(c) ==
    /\ pc[c] = "identify_markdown_code_ticks"
    /\ stages[c] = <<>>
    /\ text' = [text EXCEPT ![Frame(c)] =
                    identify_markdown_code_ticks(text[Frame(c)], TRUE).text]
    /\ pc' = [pc EXCEPT ![c] = SINGLE_QUOTES_BODY[1]]
    /\ stages' = [stages EXCEPT ![c] = Append(@, "identify_markdown_code_ticks")]
    /\ UNCHANGED <<argument, loc, exceptions, result, rewriter>>

\* l.533-562: the k-th statement of the body; l.564 after the last.
SingleQuotesStatement(c) ==
    \E k \in 1..Len(SINGLE_QUOTES_BODY) :
        /\ k = Len(stages[c])
        /\ pc[c] = SINGLE_QUOTES_BODY[k]
        /\ text' = [text EXCEPT ![Frame(c)] =
                        single_quotes_rule(
                            k, text[Frame(c)], loc[Frame(c)],
                            identify_markdown_code_ticks(argument[c].text, TRUE).code_blocks,
                            TRUE)]
        /\ pc' = [pc EXCEPT ![c] = IF k < Len(SINGLE_QUOTES_BODY)
                                   THEN SINGLE_QUOTES_BODY[k + 1] ELSE "returned"]
        /\ stages' = [stages EXCEPT ![c] = Append(@, SINGLE_QUOTES_BODY[k])]
        /\ UNCHANGED <<argument, loc, exceptions, result, rewriter>>

BodyNext == IdentifyMarkdownCodeTicks(1) \/ SingleQuotesStatement(1)

SpecBody == InitBody /\ [][BodyNext]_vars

\* [1] of the algorithm: the statements that identify contractions.
ContractionStatements ==
    {"identify_contracted_and", "identify_contracted_beginnings",
     "identify_in_word_contractions", "identify_contracted_years",
     "identify_contracted_ends"}

\* [3], [4] and [5] of the algorithm: the statements that identify pairs of
\* single quotes and single quotes without a pair.
PairStatements ==
    {"identify_single_quote_pair_around_single_word",
     "identify_single_quotes_within_double_quotes",
     "replace_single_prime_with_single_quote"}

\* C27: in fix_single_quotes_primes_and_apostrophes every statement that
\* identifies contractions has run before the first statement that identifies
\* pairs of single quotes or single quotes without a pair runs.
C27_ContractionsBeforePairs ==
    /\ \A i, j \in DOMAIN stages[1] :
           (stages[1][i] \in ContractionStatements /\ stages[1][j] \in PairStatements)
               => i < j
    /\ pc[1] \in PairStatements =>
           ContractionStatements \subseteq {stages[1][i] : i \in DOMAIN stages[1]}

\* The quotes around the n of "rock 'n' roll" are apostrophes when the
\* statement for a quoted word is reached, and apostrophes in the end.
C27_Witness ==
    /\ pc[1] = "returned"
    /\ argument[1].text = <<"r", "o", "c", "k", " ", STRAIGHT_SINGLE_QUOTE, "n", STRAIGHT_SINGLE_QUOTE, " ", "r", "o", "l", "l">>
    /\ Len(stages[1]) = Len(SINGLE_QUOTES_BODY) + 1
    /\ text[1] = <<"r", "o", "c", "k", NBSP, APOSTROPHE, "n", APOSTROPHE, NBSP,
                   "r", "o", "l", "l">>

-----------------------------------------------------------------------------
(* identify_double_primes on a number and a glyph:                         *)
(* src/src/pytypopo/modules/punctuation/double_quotes.py, l.103-134,       *)
(* src/tests/punctuation/test_double_quotes.py, l.265-314                  *)

\* The number of digits of the longest number.
MaxDigits == 4

PrimeNumbers == {n \in Texts({"1", "2"}, MaxDigits) : Len(n) > 0} \cup {<<"3">>, <<"2", "0", "2", "0">>}
PrimeGlyphs ==
    {<<STRAIGHT_DOUBLE_QUOTE>>, <<RIGHT_DOUBLE_QUOTE>>,
     <<STRAIGHT_SINGLE_QUOTE, STRAIGHT_SINGLE_QUOTE>>}
PrimeBefores == {<<>>, <<"c", "c", " ">>, <<"L", "e", "v", "e", "l", " ">>}
PrimeAfters ==
    {<<>>, <<" ", "c">>, <<"c">>,
     <<"w", "i", "t", "h", STRAIGHT_DOUBLE_QUOTE, " ", "w", "o", "r", "d">>}

\* The words b, the number n, the gap g, the glyph q and the text a after it.
PrimeText(b, n, g, q, a) == b \o n \o g \o q \o a

\* The same with the tag of the double prime for the glyph.
PrimeTagged(b, n, g, a) == b \o n \o g \o DOUBLE_PRIME_TAG \o a

PrimeCases ==
    {[b |-> b, n |-> n, g |-> g, q |-> q, a |-> a]
     : b \in PrimeBefores, n \in PrimeNumbers, g \in {<<>>, <<SPACE>>},
       q \in PrimeGlyphs, a \in PrimeAfters}

InitPrimes ==
    \E p \in PrimeCases, L \in SUPPORTED_LOCALES :
        AtStatement("identify_double_primes", PrimeText(p.b, p.n, p.g, p.q, p.a), L)

\* The call of the tests: the text becomes what the function returns.
IdentifyDoublePrimes(c) ==
    /\ pc[c] = "identify_double_primes"
    /\ text' = [text EXCEPT ![Frame(c)] = identify_double_primes(text[Frame(c)])]
    /\ pc' = [pc EXCEPT ![c] = "returned"]
    /\ stages' = [stages EXCEPT ![c] = Append(@, "identify_double_primes")]
    /\ UNCHANGED <<argument, loc, exceptions, result, rewriter>>

PrimesNext == IdentifyDoublePrimes(1)

SpecPrimes == InitPrimes /\ [][PrimesNext]_vars

\* The case of the argument of the call.
GivenPrimeCase(p) ==
    /\ pc[1] = "returned"
    /\ argument[1].text = PrimeText(p.b, p.n, p.g, p.q, p.a)

LetterFollows(p) == Len(p.a) > 0 /\ IsLetter(p.a[1])

\* C28: identify_double_primes puts the tag of the double prime for a glyph
\* after a number of one to three digits, and leaves the text as it is when a
\* letter follows the glyph or the number has four digits or more.
C28_PrimesButBeforeLetters ==
    \A p \in PrimeCases :
        GivenPrimeCase(p) =>
            text[1] = IF Len(p.n) <= 3 /\ ~LetterFollows(p)
                      THEN PrimeTagged(p.b, p.n, p.g, p.a)
                      ELSE PrimeText(p.b, p.n, p.g, p.q, p.a)

\* What the function does: the glyph after a number of one to three digits
\* is tagged whatever follows it, and no glyph after a longer number is.
C28_PrimesAfterShortNumbers ==
    \A p \in PrimeCases :
        GivenPrimeCase(p) =>
            text[1] = IF Len(p.n) <= 3
                      THEN PrimeTagged(p.b, p.n, p.g, p.a)
                      ELSE PrimeText(p.b, p.n, p.g, p.q, p.a)

\* The text of test_false_positive_number_before_opening_quote comes back
\* with the tag of the double prime before "with".
C28_OpeningQuoteTagged ==
    /\ GivenPrimeCase([b |-> <<"L", "e", "v", "e", "l", " ">>, n |-> <<"3">>, g |-> <<SPACE>>,
                       q |-> <<STRAIGHT_DOUBLE_QUOTE>>,
                       a |-> <<"w", "i", "t", "h", STRAIGHT_DOUBLE_QUOTE, " ", "w", "o", "r", "d">>])
    /\ text[1] = <<"L", "e", "v", "e", "l", " ", "3", " ">> \o DOUBLE_PRIME_TAG
                 \o <<"w", "i", "t", "h", STRAIGHT_DOUBLE_QUOTE, " ", "w", "o", "r", "d">>

\* A glyph after the four digits of a year is left as it is.
C28_YearUntagged ==
    \E p \in PrimeCases :
        /\ GivenPrimeCase(p)
        /\ p.n = <<"2", "0", "2", "0">>
        /\ text[1] = argument[1].text

-----------------------------------------------------------------------------
(* Punctuation at the closing double quote:                                *)
(* src/src/pytypopo/modules/punctuation/double_quotes.py, l.313-399,       *)
(* src/tests/punctuation/test_double_quotes.py, l.100-106 and l.812-907    *)

QuotedWord == <<"w", "o", "r", "d">>
QuotedPart == <<"q", "u", "o", "t", "e", "d", " ", "p", "a", "r", "t">>
NamespacePollution == <<"n", "a", "m", "e", "s", "p", "a", "c", "e", " ", "p", "o", "l", "l", "u", "t", "i", "o", "n">>
ClosingMarks == {".", ",", ";", ":", "!", "?", ELLIPSIS}

\* The text w in the double quotes of the locale l with the mark p just
\* inside the closing quote, and with the mark just outside it.
MarkInside(w, p, l) ==
    <<l.double_quote_open>> \o w \o <<p, l.double_quote_close>>
MarkOutside(w, p, l) ==
    <<l.double_quote_open>> \o w \o <<l.double_quote_close, p>>

\* The quoted texts of the tests, alone and after the words "common to have".
ClosingBefores == {<<>>, <<"c", "o", "m", "m", "o", "n", " ", "t", "o", " ", "h", "a", "v", "e", " ">>}
ClosingTexts(l) ==
    {b \o q \o a
     : b \in ClosingBefores,
       q \in {MarkInside(w, p, l) : w \in {QuotedWord, QuotedPart, NamespacePollution},
                                    p \in ClosingMarks}
             \cup {MarkOutside(w, p, l) : w \in {QuotedWord, QuotedPart, NamespacePollution},
                                          p \in ClosingMarks},
       a \in {<<>>, <<" ", "w", "h", "e", "r", "e">>}}

InitClosing ==
    \E L \in SUPPORTED_LOCALES :
        \E t \in ClosingTexts(get_locale(L)) : AtStatement("fix_double_quotes", t, L)

ClosingNext == FixDoubleQuotes(1)

SpecClosing == InitClosing /\ [][ClosingNext]_vars

\* fix_double_quotes_and_primes has returned the text for the argument t.
StageGave(t, r) ==
    /\ pc[1] = "fix_single_quotes"
    /\ argument[1].text = t
    /\ text[1] = r

StageGiven(t) == pc[1] = "fix_single_quotes" /\ argument[1].text = t

\* C29: a period, a comma, a semicolon or a colon just inside the closing
\* quote of a quoted word is moved outside it, and an exclamation mark, a
\* question mark or an ellipsis there stays, in the quotes of every locale.
C29_WordMarksMoveOutside ==
    \A p \in ClosingMarks :
        /\ StageGiven(MarkInside(QuotedWord, p, loc[1])) =>
               text[1] = IF p \in {".", ",", ";", ":"}
                         THEN MarkOutside(QuotedWord, p, loc[1])
                         ELSE MarkInside(QuotedWord, p, loc[1])

\* What the stage does to the quoted word of the tests: every mark just
\* inside the closing quote stays there.
C29_WordMarksStay ==
    \A p \in ClosingMarks :
        StageGiven(MarkInside(QuotedWord, p, loc[1])) =>
            text[1] = MarkInside(QuotedWord, p, loc[1])

\* The text of test_move_period_outside_single_word comes back as it is.
C29_PeriodKeptInside ==
    StageGave(MarkInside(QuotedWord, ".", loc[1]), MarkInside(QuotedWord, ".", loc[1]))

\* C30: a period, a comma, an exclamation mark, a question mark or an
\* ellipsis just outside the closing quote of several quoted words is moved
\* inside it, and a colon or a semicolon just inside is moved outside, in the
\* quotes of every locale.
C30_SentenceMarksMoveInside ==
    \A w \in {QuotedPart, NamespacePollution}, b \in ClosingBefores,
       a \in {<<>>, <<" ", "w", "h", "e", "r", "e">>}, p \in ClosingMarks :
        /\ (p \in {".", ",", "!", "?", ELLIPSIS}
            /\ StageGiven(b \o MarkOutside(w, p, loc[1]) \o a)) =>
               text[1] = b \o MarkInside(w, p, loc[1]) \o a
        /\ (p \in {":", ";"} /\ StageGiven(b \o MarkInside(w, p, loc[1]) \o a)) =>
               text[1] = b \o MarkOutside(w, p, loc[1]) \o a

\* What the stage does to the quoted words of the tests when nothing is
\* before them: a period, an exclamation mark, a question mark or an ellipsis
\* just outside the closing quote is moved inside, and a comma, a colon or a
\* semicolon stays on the side it is on.
C30_TerminalMarksMoveInside ==
    \A w \in {QuotedPart, NamespacePollution}, a \in {<<>>, <<" ", "w", "h", "e", "r", "e">>},
       p \in ClosingMarks :
        /\ StageGiven(MarkOutside(w, p, loc[1]) \o a) =>
               text[1] = IF p \in {".", "!", "?", ELLIPSIS}
                         THEN MarkInside(w, p, loc[1]) \o a
                         ELSE MarkOutside(w, p, loc[1]) \o a
        /\ (p \in {",", ":", ";"} /\ StageGiven(MarkInside(w, p, loc[1]) \o a)) =>
               text[1] = MarkInside(w, p, loc[1]) \o a

\* The comma after the quoted words of test_namespace_pollution_example
\* stays outside the closing quote.
C30_CommaKeptOutside ==
    StageGave(<<"c", "o", "m", "m", "o", "n", " ", "t", "o", " ", "h", "a", "v", "e", " ">> \o MarkOutside(NamespacePollution, ",", loc[1]) \o <<" ", "w", "h", "e", "r", "e">>,
              <<"c", "o", "m", "m", "o", "n", " ", "t", "o", " ", "h", "a", "v", "e", " ">> \o MarkOutside(NamespacePollution, ",", loc[1]) \o <<" ", "w", "h", "e", "r", "e">>)

\* The period after the quoted words of test_move_period_inside_multi_word
\* is moved inside.
C30_PeriodMovedInside ==
    StageGave(MarkOutside(QuotedPart, ".", loc[1]), MarkInside(QuotedPart, ".", loc[1]))

=============================================================================
